---------------------------- MODULE Spec2Model ----------------------------
(***************************************************************************)
(* A model of fp-openapi-rust-gen: the type mapper (types.rs, map_type),   *)
(* the reference resolver (types.rs, resolve / resolve_reference), the     *)
(* route synthesizer (routes.rs, generate_routes / generate_route /        *)
(* generate_function_body) and the model synthesizer (models.rs,           *)
(* generate_models / generate_model / generate_normal_field).              *)
(*                                                                         *)
(* Text is modelled as TLA+ strings; the output of a writer is the         *)
(* sequence of the fragments written to it, one per write!/writeln! call.  *)
(* A reference string is the sequence of its pieces, every '/' being a     *)
(* piece of its own, so that splitting a reference is computed; a path     *)
(* template is the sequence of its pieces too, every brace a piece.  A     *)
(* backquote of the program's messages is written as an apostrophe.        *)
(***************************************************************************)
EXTENDS Integers, Sequences, FiniteSets, TLC

VARIABLES
    fld,         \* a field or a parameter being written: its inputs, its results
    mt,          \* the type mapper's call: its three inputs, its position, its results
    components,  \* the component registry (okapi Components), read-only
    rr,          \* resolve_reference: the pending call, the nesting depth, the result
    doc,         \* generate_routes: the `paths` map, in registry order
    pc,          \* generate_routes: position in the loops over paths and methods
    out,         \* generate_routes: the fragments written to the writer so far
    diag,        \* generate_routes: the lines sent to the diagnostic streams
    status,      \* generate_routes: Running, or the Result the run returned
    calls,       \* the generate_route calls made so far, each with its result
    gm           \* generate_models: the schemas, the position, the files, the result

vars == <<fld, mt, components, rr, doc, pc, out, diag, status, calls, gm>>

-----------------------------------------------------------------------------
(* Option and Result *)

None == [tag |-> "None"]

Some(x) == [tag |-> "Some", v |-> x]

Ok(x) == [tag |-> "Ok", v |-> x]

Err(m) == [tag |-> "Err", msg |-> m]

IsSome(o) == o.tag = "Some"

IsOk(r) == r.tag = "Ok"

IsErr(r) == r.tag = "Err"

\* F applied to the value of x (x is evaluated once).
Let(x, F(_)) == CHOOSE r \in {F(v) : v \in {x}} : TRUE

-----------------------------------------------------------------------------
(* Strings *)

RECURSIVE Concat(_)
\* The pieces of a text, joined.  An error's message is kept as the sequence
\* of its pieces: the texts of the format string and the values put in it.
Concat(pieces) ==
    IF pieces = <<>> THEN "" ELSE Head(pieces) \o Concat(Tail(pieces))

RECURSIVE Split(_)
\* str::split("/"): the segments between the '/' pieces (never empty: a text
\* without '/' is one segment).
Split(s) ==
    IF \A i \in 1..Len(s) : s[i] # "/"
    THEN <<Concat(s)>>
    ELSE LET k == CHOOSE i \in 1..Len(s) :
                      s[i] = "/" /\ \A j \in 1..(i - 1) : s[j] # "/"
         IN  <<Concat(SubSeq(s, 1, k - 1))>> \o Split(SubSeq(s, k + 1, Len(s)))

\* str::rsplit_once('/'): the text after the last '/', or None without a '/'.
RSplitOnceTail(s) ==
    IF \A i \in 1..Len(s) : s[i] # "/"
    THEN None
    ELSE LET k == CHOOSE i \in 1..Len(s) :
                      s[i] = "/" /\ \A j \in (i + 1)..Len(s) : s[j] # "/"
         IN  Some(Concat(SubSeq(s, k + 1, Len(s))))

\* convert_case, Case::Pascal, on the identifiers of the model.
ToPascal(s) ==
    CASE s = "item" -> "Item"
      [] s = "Item" -> "Item"
      [] s = "pet_owner" -> "PetOwner"
      [] s = "status" -> "Status"
      [] s = "new-item" -> "NewItem"
      [] s = "a" -> "A"
      [] s = "b" -> "B"
      [] s = "c" -> "C"
      [] s = "d" -> "D"
      [] s = "e" -> "E"
      [] OTHER -> s

\* convert_case, Case::Snake, on the identifiers of the model.
ToSnake(s) ==
    CASE s = "itemId" -> "item_id"
      [] s = "pageSize" -> "page_size"
      [] s = "Sort-By" -> "sort_by"
      [] s = "createdAt" -> "created_at"
      [] s = "Type" -> "type"
      [] s = "new-item" -> "new_item"
      [] OTHER -> s

-----------------------------------------------------------------------------
(* types.rs: map_type *)

Single(t) == [kind |-> "Single", t |-> t]

Vec(ts) == [kind |-> "Vec", ts |-> ts]

InstanceTypeNames ==
    {"Null", "Boolean", "Object", "Array", "Number", "String", "Integer"}

\* MapInstanceType, were a number mapped to a floating-point type.
MapInstanceType_Float(t) ==
    CASE t = "Null" -> "()"
      [] t = "Boolean" -> "bool"
      [] t = "Object" -> "std::collections::HashMap<String, String>"
      [] t = "Array" -> "Vec<serde_json::Value>"
      [] t = "Number" -> "f64"
      [] t = "String" -> "String"
      [] t = "Integer" -> "i32"

\* The match on a single instance type.
MapInstanceType(t) ==
    CASE t = "Null" -> "()"
      [] t = "Boolean" -> "bool"
      [] t = "Object" -> "std::collections::HashMap<String, String>"
      [] t = "Array" -> "Vec<serde_json::Value>"
      [] t = "Number" -> "i64"
      [] t = "String" -> "String"
      [] t = "Integer" -> "i32"

\* MapTypeFallthrough, were a list of instance types a failure of its own.
MapTypeFallthrough_ListFails(instance_type, reference) ==
    IF IsSome(instance_type) /\ instance_type.v.kind = "Single"
    THEN Ok(MapInstanceType(instance_type.v.t))
    ELSE IF IsSome(reference) /\ ~IsSome(instance_type)
    THEN LET tail == RSplitOnceTail(reference.v)
         IN  IF IsSome(tail)
             THEN Ok("models::" \o ToPascal(tail.v))
             ELSE Ok("models::" \o ToPascal(Concat(reference.v)))
    ELSE Err(<<"Failed to write field. Unsupported instance_type and reference is None">>)

\* The `Some(_) | None` arm: the instance type, then the reference, then failure.
MapTypeFallthrough(instance_type, reference) ==
    IF IsSome(instance_type) /\ instance_type.v.kind = "Single"
    THEN Ok(MapInstanceType(instance_type.v.t))
    ELSE IF IsSome(reference)
    THEN LET tail == RSplitOnceTail(reference.v)
         IN  IF IsSome(tail)
             THEN Ok("models::" \o ToPascal(tail.v))
             ELSE Ok("models::" \o ToPascal(Concat(reference.v)))
    ELSE Err(<<"Failed to write field. Unsupported instance_type and reference is None">>)

\* map_type, were a single instance type looked at before the format.
map_type_InstanceFirst(format, instance_type, reference) ==
    IF IsSome(instance_type) /\ instance_type.v.kind = "Single"
    THEN Ok(MapInstanceType(instance_type.v.t))
    ELSE CASE format = Some("base64uuid") -> Ok("base64uuid::Base64Uuid")
           [] format = Some("int32") -> Ok("i32")
           [] format = Some("int64") -> Ok("i64")
           [] format = Some("float") -> Ok("f32")
           [] format = Some("double") -> Ok("f64")
           [] format = Some("byte") -> Ok("Vec<u8>")
           [] format = Some("binary") -> Ok("Vec<u8>")
           [] format = Some("date") \/ format = Some("date-time") ->
                 Ok("time::OffsetDateTime")
           [] format = Some("password") -> Ok("SecureString")
           [] OTHER -> MapTypeFallthrough(instance_type, reference)

\* types.rs:7-44.
map_type(format, instance_type, reference) ==
    CASE format = Some("base64uuid") -> Ok("base64uuid::Base64Uuid")
      [] format = Some("int32") -> Ok("i32")
      [] format = Some("int64") -> Ok("i64")
      [] format = Some("float") -> Ok("f32")
      [] format = Some("double") -> Ok("f64")
      [] format = Some("byte") -> Ok("Vec<u8>")
      [] format = Some("binary") -> Ok("Vec<u8>")
      [] format = Some("date") \/ format = Some("date-time") -> Ok("time::OffsetDateTime")
      [] format = Some("password") -> Ok("SecureString")
      [] OTHER -> MapTypeFallthrough(instance_type, reference)

-----------------------------------------------------------------------------
(* The document model: schemas, parameters, media types, the registry *)

\* schemars SchemaObject: the fields the generator reads.
SchemaObject(format, instance_type, reference, array, title) ==
    [format |-> format, instance_type |-> instance_type,
     reference |-> reference, array |-> array, title |-> title]

\* okapi RefOr.
Ref(reference) == [kind |-> "Ref", reference |-> reference]

Object(object) == [kind |-> "Object", object |-> object]

\* The reference string "#/components/<component>/<name>".
Pointer(component, name) ==
    <<"#", "/", "components", "/", component, "/", name>>

\* okapi Map::get.
MapGet(map, key) == IF key \in DOMAIN map THEN Some(map[key]) ELSE None

EmptyMap == [k \in {} |-> None]

-----------------------------------------------------------------------------
(* types.rs: resolve_reference and resolve *)

\* ResolvedReference, the tagged result of a resolution.
Resolved(variant, object) == [variant |-> variant, object |-> object]

Return(result, log) == [tag |-> "Return", result |-> result, log |-> log]

Recurse(reference) == [tag |-> "Recurse", reference |-> reference]

\* ResolveRefOrArm, were a name missing from the mapping an error.
ResolveRefOrArm_MissingFails(entries, name, variant) ==
    IF name \notin DOMAIN entries
    THEN Return(Err(<<"no entry named ", name>>), <<>>)
    ELSE IF entries[name].kind = "Ref"
    THEN Recurse(entries[name].reference)
    ELSE Return(Ok(Some(Resolved(variant, entries[name].object))), <<>>)

\* The arm of a category of RefOr entries: absent, a nested call, or the object.
ResolveRefOrArm(entries, name, variant) ==
    IF name \notin DOMAIN entries
    THEN Return(Ok(None), <<>>)
    ELSE IF entries[name].kind = "Ref"
    THEN Recurse(entries[name].reference)
    ELSE Return(Ok(Some(Resolved(variant, entries[name].object))), <<>>)

\* One activation of resolve_reference, up to its return or its nested call.
ResolveReferenceBody(reference, comps) ==
    LET split == Split(reference)
    IN  IF Len(split) < 3
        THEN Return(Err(<<"no component name found in \"", Concat(reference), "\"">>), <<>>)
        ELSE IF Len(split) < 4
        THEN Return(Err(<<"no model name found in \"", Concat(reference), "\"">>), <<>>)
        ELSE LET component == split[3]
                 name == split[4]
             IN  CASE component = "schemas" ->
                        Return(Ok(IF name \in DOMAIN comps.schemas
                                  THEN Some(Resolved("Schema", comps.schemas[name]))
                                  ELSE None), <<>>)
                   [] component = "parameters" ->
                        ResolveRefOrArm(comps.parameters, name, "Parameter")
                   [] component = "responses" ->
                        ResolveRefOrArm(comps.responses, name, "Responses")
                   [] component = "requestBody" ->
                        ResolveRefOrArm(comps.request_bodies, name, "RequestBody")
                   [] OTHER ->
                        Return(Ok(None), <<"Unsupported component type " \o component>>)

RECURSIVE resolve_reference(_, _)
\* The whole call, for a registry on which the nesting ends: the nested call's
\* result is returned as it is.
resolve_reference(reference, comps) ==
    Let(ResolveReferenceBody(reference, comps),
        LAMBDA body : IF body.tag = "Recurse"
                      THEN resolve_reference(body.reference, comps)
                      ELSE body)

\* ResolveTarget: the variant asked for and the Option<&RefOr<T>> it holds.
ResolveTarget(variant, inner) == [variant |-> variant, inner |-> inner]

\* resolve: a reference is looked up, an inline object is tagged with the
\* variant of its target (Responses for ResolveTarget::Response), an absent
\* input is absent.  The result and what was logged.
resolve(input, comps) ==
    IF ~IsSome(input.inner)
    THEN Return(Ok(None), <<>>)
    ELSE IF input.inner.v.kind = "Ref"
    THEN resolve_reference(input.inner.v.reference, comps)
    ELSE Return(Ok(Some(Resolved(IF input.variant = "Response"
                                 THEN "Responses" ELSE input.variant,
                                 input.inner.v.object))), <<>>)

-----------------------------------------------------------------------------
(* routes.rs: the writer, and the pieces of a document generate_route reads *)

\* okapi Parameter; value is ParameterValue::Schema { schema } or ::Content.
Parameter(name, location, required, value) ==
    [name |-> name, location |-> location, required |-> required, value |-> value]

SchemaValue(schema) == [kind |-> "Schema", schema |-> schema]

ContentValue == [kind |-> "Content"]

\* okapi MediaType: its optional schema.
MediaType(schema) == [schema |-> schema]

\* An entry of a content map: the media type's name and its MediaType.
Entry(content_type, media_type) ==
    [content_type |-> content_type, media_type |-> media_type]

\* okapi RequestBody and Response: the description and the content map, in
\* the map's order.
Body(description, content) == [description |-> description, content |-> content]

\* Map::get on a content map.
ContentGet(content, content_type) ==
    IF \E i \in 1..Len(content) : content[i].content_type = content_type
    THEN Some(content[CHOOSE i \in 1..Len(content) :
                          content[i].content_type = content_type].media_type)
    ELSE None

\* schemars Schema: a boolean schema or a schema object.
BoolSchema(b) == [kind |-> "Bool", b |-> b]

ObjectSchema(object) == [kind |-> "Object", object |-> object]

\* schemars ArrayValidation.items: Option<SingleOrVec<Schema>>.
ArrayValidation(items) == [items |-> items]

SingleItem(schema) == [kind |-> "Single", schema |-> schema]

VecItems(schemas) == [kind |-> "Vec", schemas |-> schemas]

\* okapi Operation.  status200 is responses.responses.get("200").
Operation(description, operation_id, parameters, request_body, status200) ==
    [description |-> description, operation_id |-> operation_id,
     parameters |-> parameters, request_body |-> request_body,
     status200 |-> status200]

\* The state of a generate_route call: the fragments written, the lines sent
\* to the diagnostic streams, the result so far, and the three flags of
\* routes.rs:281-283.
NewWriter ==
    [out |-> <<>>, log |-> <<>>, result |-> Ok("unit"),
     is_json |-> FALSE, is_none |-> FALSE, is_text |-> FALSE]

Write(w, fragment) == [w EXCEPT !.out = Append(@, fragment)]

Log(w, line) == [w EXCEPT !.log = Append(@, line)]

LogAll(w, lines) == [w EXCEPT !.log = @ \o lines]

Bail(w, msg) == [w EXCEPT !.result = Err(msg)]

\* The '?' on a Result: the error value ends the call.
Failed(w) == IsErr(w.result)

\* The rest of a function after a step that may have failed with '?'.
Then(w, Rest(_)) == Let(w, LAMBDA v : IF Failed(v) THEN v ELSE Rest(v))

\* {:?} of a schema in an error's context; the text is not modelled further.
DebugSchema(schema) == "SchemaObject { .. }"

\* types.rs reference_name_to_models_path (imported at routes.rs:3): the
\* models path of the record a reference names.
reference_name_to_models_path(reference) ==
    LET tail == RSplitOnceTail(reference)
    IN  IF IsSome(tail)
        THEN "models::" \o ToPascal(tail.v)
        ELSE "models::" \o ToPascal(Concat(reference))

-----------------------------------------------------------------------------
(* routes.rs: generate_route, the signature *)

\* RouteHead, were a missing operation id replaced by a made-up name.
RouteHead_Unnamed(w, endpoint, method, operation) ==
    Write(Write(w, "pub async fn "
                   \o (IF IsSome(operation.operation_id)
                       THEN operation.operation_id.v ELSE "unnamed") \o "(\n"),
          "    client: &ApiClient,\n")

\* routes.rs:150-160: the doc comment, the operation id, the opening lines.
RouteHead(w, endpoint, method, operation) ==
    LET w1 == IF IsSome(operation.description)
              THEN Write(w, "/// " \o operation.description.v \o "\n")
              ELSE w
    IN  IF ~IsSome(operation.operation_id)
        THEN Bail(w1, <<"\"", method, " ", Concat(endpoint),
                       "\" does not have operation_id">>)
        ELSE Write(Write(w1, "pub async fn " \o operation.operation_id.v \o "(\n"),
                   "    client: &ApiClient,\n")

\* routes.rs:171-189: the type of a parameter's value.
ParameterType(w, parameter) ==
    IF parameter.value.kind = "Schema"
    THEN LET schema == parameter.value.schema
             type_ == map_type(schema.format, schema.instance_type, schema.reference)
         IN  IF IsErr(type_)
             THEN Bail(w, <<"Failed to map type for parameter ", parameter.name,
                            ". Schema: ", DebugSchema(schema)>>)
             ELSE Write(w, type_.v)
    ELSE w

\* WriteParameter, were the type of an optional parameter written bare.
WriteParameter_Bare(w, parameter) ==
    Then(ParameterType(Write(w, "    " \o ToSnake(parameter.name) \o ": "), parameter),
         LAMBDA w3 : Write(w3, ",\n"))

\* routes.rs:164-196: a resolved parameter, written into the signature.
WriteParameter(w, parameter) ==
    LET w1 == Write(w, "    " \o ToSnake(parameter.name) \o ": ")
        w2 == IF ~parameter.required THEN Write(w1, "Option<") ELSE w1
    IN  Then(ParameterType(w2, parameter),
             LAMBDA w3 : Write(IF ~parameter.required THEN Write(w3, ">") ELSE w3,
                               ",\n"))

\* routes.rs:163-202: one turn of the loop over the parameters.
\* SignatureParameter, were an entity of another category passed over.
SignatureParameter_SkipsMismatch(w, raw_param, comps) ==
    Let(resolve(ResolveTarget("Parameter", Some(raw_param)), comps),
        LAMBDA res :
            LET w1 == LogAll(w, res.log)
            IN  IF IsErr(res.result)
                THEN Bail(w1, res.result.msg)
                ELSE IF ~IsSome(res.result.v)
                THEN w1
                ELSE IF res.result.v.v.variant = "Parameter"
                THEN WriteParameter(w1, res.result.v.v.object)
                ELSE w1)

\* routes.rs:163-202: one turn of the loop over the parameters.
SignatureParameter(w, raw_param, comps) ==
    Let(resolve(ResolveTarget("Parameter", Some(raw_param)), comps),
        LAMBDA res :
            LET w1 == LogAll(w, res.log)
            IN  IF IsErr(res.result)
                THEN Bail(w1, res.result.msg)
                ELSE IF ~IsSome(res.result.v)
                THEN w1
                ELSE IF res.result.v.v.variant = "Parameter"
                THEN WriteParameter(w1, res.result.v.v.object)
                ELSE Bail(w1, <<"resolved to unexpected type ", res.result.v.v.variant,
                                "(..), expected 'Parameter'">>))

RECURSIVE SignatureParameters_Reversed(_, _, _)
\* SignatureParameters, were the handles taken from the last to the first.
SignatureParameters_Reversed(w, raw_params, comps) ==
    IF raw_params = <<>>
    THEN w
    ELSE Then(SignatureParameter(w, raw_params[Len(raw_params)], comps),
              LAMBDA w1 : SignatureParameters_Reversed(
                              w1, SubSeq(raw_params, 1, Len(raw_params) - 1), comps))

RECURSIVE SignatureParameters(_, _, _)
\* routes.rs:162-203: the loop over shared_parameters.iter().chain(&operation.parameters).
SignatureParameters(w, raw_params, comps) ==
    IF raw_params = <<>>
    THEN w
    ELSE Then(SignatureParameter(w, Head(raw_params), comps),
              LAMBDA w1 : SignatureParameters(w1, Tail(raw_params), comps))

-----------------------------------------------------------------------------
(* routes.rs: generate_route, the payload parameter *)

SupportedMediaTypes ==
    {"application/json", "multipart/form-data", "application/octet-stream"}

\* SupportedMedia, were the kept media types in the reverse of the map order.
SupportedMedia_Reversed(content) ==
    LET kept == SelectSeq(content, LAMBDA e : e.content_type \in SupportedMediaTypes)
    IN  [j \in 1..Len(kept) |-> kept[Len(kept) + 1 - j]]

\* routes.rs:210-227: the media types kept by the filter_map, in map order.
SupportedMedia(content) ==
    SelectSeq(content, LAMBDA e : e.content_type \in SupportedMediaTypes)

RECURSIVE UnsupportedMediaWarnings(_)
\* routes.rs:219-224: one warning per entry the filter_map drops.
UnsupportedMediaWarnings(content) ==
    IF content = <<>>
    THEN <<>>
    ELSE (IF Head(content).content_type \in SupportedMediaTypes
          THEN <<>>
          ELSE <<"warn: found \"" \o Head(content).content_type
                 \o "\", expected json, form data or octet stream">>)
         \o UnsupportedMediaWarnings(Tail(content))

\* PayloadOfArray, were an unsupported item given the type of untyped values.
PayloadOfArray_Fallback(w, array) ==
    IF ~IsSome(array.items)
    THEN Bail(w, <<"array but no items?">>)
    ELSE IF array.items.v.kind = "Vec" \/ array.items.v.schema.kind = "Bool"
    THEN Write(w, "    payload: Vec<serde_json::Value>\n")
    ELSE LET object == array.items.v.schema.object
             type_ == map_type(object.format, object.instance_type, object.reference)
         IN  IF IsErr(type_)
             THEN Bail(w, type_.msg)
             ELSE Write(w, "    payload: Vec<" \o type_.v \o ">\n")

\* routes.rs:239-259: a payload whose schema is an array.
PayloadOfArray(w, array) ==
    IF ~IsSome(array.items)
    THEN Bail(w, <<"array but no items?">>)
    ELSE IF array.items.v.kind = "Vec"
    THEN Bail(w, <<"Vec with Array as items is not supported">>)
    ELSE IF array.items.v.schema.kind = "Bool"
    THEN Bail(w, <<"simple boolean Vec is unsupported">>)
    ELSE LET object == array.items.v.schema.object
             type_ == map_type(object.format, object.instance_type, object.reference)
         IN  IF IsErr(type_)
             THEN Bail(w, type_.msg)
             ELSE Write(w, "    payload: Vec<" \o type_.v \o ">\n")

\* routes.rs:236-269: the payload parameter, from the chosen schema.
PayloadOfSchema(w, schema) ==
    IF IsSome(schema.reference)
    THEN Write(w, "    payload: " \o reference_name_to_models_path(schema.reference.v) \o "\n")
    ELSE IF IsSome(schema.array)
    THEN PayloadOfArray(w, schema.array.v)
    ELSE LET type_ == map_type(schema.format, schema.instance_type, schema.reference)
         IN  IF IsErr(type_)
             THEN Bail(w, type_.msg)
             ELSE Write(w, "    payload: " \o type_.v \o ",\n")

\* routes.rs:209-270: a resolved request body.
PayloadOfBody(w, body) ==
    LET media_types == SupportedMedia(body.content)
        w1 == LogAll(w, UnsupportedMediaWarnings(body.content))
    IN  IF media_types = <<>>
        THEN Bail(w1, <<"unknown media type">>)
        ELSE IF ~IsSome(media_types[1].media_type.schema)
        THEN Bail(w1, <<"need a schema">>)
        ELSE PayloadOfSchema(w1, media_types[1].media_type.schema.v)

\* routes.rs:205-276: the request body of the signature.
SignatureRequestBody(w, operation, comps) ==
    Let(resolve(ResolveTarget("RequestBody", operation.request_body), comps),
        LAMBDA res :
            LET w1 == LogAll(w, res.log)
            IN  IF IsErr(res.result)
                THEN Bail(w1, res.result.msg)
                ELSE IF ~IsSome(res.result.v)
                THEN w1
                ELSE IF res.result.v.v.variant = "RequestBody"
                THEN PayloadOfBody(w1, res.result.v.v.object)
                ELSE Bail(w1, <<"resolved to unexpected type ", res.result.v.v.variant,
                                "(..), expected 'RequestBody'">>))

-----------------------------------------------------------------------------
(* routes.rs: generate_route, the return type *)

\* routes.rs:306-323: a JSON response whose schema is an array.
ReturnOfArray(w, array, schema) ==
    IF ~IsSome(array.items)
    THEN Log(w, "type is array but has no items? " \o DebugSchema(schema))
    ELSE IF array.items.v.kind = "Vec"
    THEN Log(w, "unsupported multiple items vec [..]")
    ELSE IF array.items.v.schema.kind = "Bool"
    THEN Log(w, "unsupported bool for array items")
    ELSE LET object == array.items.v.schema.object
             type_ == map_type(object.format, object.instance_type, object.reference)
         IN  IF IsErr(type_)
             THEN Bail(w, type_.msg)
             ELSE Write(w, "Vec<" \o type_.v \o ">")

\* routes.rs:294-338: the return type of a response with JSON content.
ReturnOfJson(w, json_media) ==
    IF ~IsSome(json_media.schema)
    THEN Bail(w, <<"need a schema">>)
    ELSE LET schema == json_media.schema.v
             w1 == IF IsSome(schema.reference)
                   THEN LET tail == RSplitOnceTail(schema.reference.v)
                        IN  IF IsSome(tail)
                            THEN Write(w, "models::" \o ToPascal(tail.v))
                            ELSE Write(w, "models::" \o ToPascal(Concat(schema.reference.v)))
                   ELSE IF IsSome(schema.array)
                   THEN ReturnOfArray(w, schema.array.v, schema)
                   ELSE LET type_ == map_type(schema.format, schema.instance_type,
                                              schema.reference)
                        IN  IF IsErr(type_)
                            THEN Bail(w, type_.msg)
                            ELSE Write([w EXCEPT !.is_none = (type_.v = "()")], type_.v)
         IN  Then(w1, LAMBDA w2 : [w2 EXCEPT !.is_json = TRUE])

\* ReturnOfResponse, were text/plain looked for before application/json.
ReturnOfResponse_TextFirst(w, response) ==
    IF response.content = <<>>
    THEN Write([w EXCEPT !.is_none = TRUE], "()")
    ELSE IF IsSome(ContentGet(response.content, "text/plain"))
    THEN Write([w EXCEPT !.is_text = TRUE], "String")
    ELSE IF IsSome(ContentGet(response.content, "application/json"))
    THEN ReturnOfJson(w, ContentGet(response.content, "application/json").v)
    ELSE Write(IF ~IsSome(ContentGet(response.content, "application/octet-stream"))
               THEN Log(w, "warn: unknown response mime type(s), falling back to 'bytes::Bytes': [..]")
               ELSE w,
               "bytes::Bytes")

\* routes.rs:289-351: the return type of a resolved response.
ReturnOfResponse(w, response) ==
    IF response.content = <<>>
    THEN Write([w EXCEPT !.is_none = TRUE], "()")
    ELSE IF IsSome(ContentGet(response.content, "application/json"))
    THEN ReturnOfJson(w, ContentGet(response.content, "application/json").v)
    ELSE IF IsSome(ContentGet(response.content, "text/plain"))
    THEN Write([w EXCEPT !.is_text = TRUE], "String")
    ELSE Write(IF ~IsSome(ContentGet(response.content, "application/octet-stream"))
               THEN Log(w, "warn: unknown response mime type(s), falling back to 'bytes::Bytes': [..]")
               ELSE w,
               "bytes::Bytes")

\* routes.rs:278-361: ") -> Result<" and the return type.
SignatureReturn(w, operation, comps) ==
    Let(resolve(ResolveTarget("Response", operation.status200), comps),
        LAMBDA res :
            LET w1 == LogAll(Write(w, ") -> Result<"), res.log)
            IN  IF IsErr(res.result)
                THEN Bail(w1, res.result.msg)
                ELSE IF ~IsSome(res.result.v)
                THEN [Write(w1, "()") EXCEPT !.is_none = TRUE]
                ELSE IF res.result.v.v.variant = "Responses"
                THEN ReturnOfResponse(w1, res.result.v.v.object)
                ELSE Bail(w1, <<"resolved to unexpected type ", res.result.v.v.variant,
                                "(..), expected 'Response'">>))

-----------------------------------------------------------------------------
(* routes.rs: generate_function_body *)

\* The index of the first piece of s equal to c at or after position from, or 0.
IndexFrom(s, c, from) ==
    IF \E i \in from..Len(s) : s[i] = c
    THEN CHOOSE i \in from..Len(s) : s[i] = c /\ \A j \in from..(i - 1) : s[j] # c
    ELSE 0

RECURSIVE Captures(_)
\* routes.rs:390-399: group 1 of every match of \{(.*?)\} in the endpoint.
Captures(endpoint) ==
    LET open == IndexFrom(endpoint, "{", 1)
        close == IF open = 0 THEN 0 ELSE IndexFrom(endpoint, "}", open + 1)
    IN  IF open = 0 \/ close = 0
        THEN <<>>
        ELSE <<Concat(SubSeq(endpoint, open + 1, close - 1))>>
             \o Captures(SubSeq(endpoint, close + 1, Len(endpoint)))

RECURSIVE WriteArguments(_, _)
\* routes.rs:404-406
WriteArguments(w, arguments) ==
    IF arguments = <<>>
    THEN w
    ELSE WriteArguments(Write(w, Head(arguments) \o " = " \o ToSnake(Head(arguments)) \o ", "),
                        Tail(arguments))

\* routes.rs:386-413: the request builder and the path.
BodyRequest(w, endpoint, method) ==
    LET w1 == Write(Write(w, "    let mut builder = client.request(\n"),
                    "        Method::" \o method \o ",\n")
        arguments == Captures(endpoint)
        w2 == IF arguments # <<>>
              THEN Write(WriteArguments(Write(w1, "        &format!(\"" \o Concat(endpoint) \o "\", "),
                                        arguments),
                         ")")
              ELSE Write(w1, "        \"" \o Concat(endpoint) \o "\"")
    IN  Write(w2, "\n    )?;\n")

\* routes.rs:424-466: a query parameter, attached to the request.
BodyQueryParameter(w, parameter) ==
    LET snake == ToSnake(parameter.name)
        w1 == IF ~parameter.required
              THEN Write(w, "    if let Some(" \o snake \o ") = " \o snake \o " {\n")
              ELSE w
        type_ == IF parameter.value.kind = "Schema"
                 THEN map_type(parameter.value.schema.format,
                               parameter.value.schema.instance_type,
                               parameter.value.schema.reference)
                 ELSE Ok("")
        parameter_name ==
            IF parameter.value.kind = "Schema" /\ type_ = Ok("time::OffsetDateTime")
            THEN snake \o ".format(&Rfc3339)?"
            ELSE IF parameter.value.kind = "Schema"
                    /\ type_ = Ok("std::collections::HashMap<String, String>")
            THEN "serde_json::to_string(&" \o snake \o ")?"
            ELSE snake
        w2 == Write(w1, "        builder = builder.query(&[(\"" \o parameter.name
                        \o "\", " \o parameter_name \o ")]);\n")
    IN  IF IsErr(type_)
        THEN Bail(w1, <<"Failed to map type for parameter ", parameter.name,
                        ". Schema: ", DebugSchema(parameter.value.schema)>>)
        ELSE IF ~parameter.required THEN Write(w2, "    }\n") ELSE w2

\* routes.rs:416-470: one turn of the loop over operation.parameters.
BodyParameter(w, ref_or, comps) ==
    Let(resolve(ResolveTarget("Parameter", Some(ref_or)), comps),
        LAMBDA res :
            LET w1 == LogAll(w, res.log)
            IN  IF IsErr(res.result)
                THEN Bail(w1, res.result.msg)
                ELSE IF ~IsSome(res.result.v) \/ res.result.v.v.variant # "Parameter"
                THEN w1
                ELSE LET parameter == res.result.v.v.object
                     IN  CASE parameter.location = "path" -> w1
                           [] parameter.location = "query" -> BodyQueryParameter(w1, parameter)
                           [] OTHER -> Log(w1, "unknown 'in': " \o parameter.location))

RECURSIVE BodyParameters(_, _, _)
\* routes.rs:416-471
BodyParameters(w, parameters, comps) ==
    IF parameters = <<>>
    THEN w
    ELSE Then(BodyParameter(w, Head(parameters), comps),
              LAMBDA w1 : BodyParameters(w1, Tail(parameters), comps))

\* routes.rs:474-493: the payload, attached to the request.
BodyRequestBody(w, operation, comps) ==
    IF ~IsSome(operation.request_body)
    THEN w
    ELSE Let(resolve(ResolveTarget("RequestBody", operation.request_body), comps),
             LAMBDA res :
                 LET w1 == LogAll(w, res.log)
                 IN  IF IsErr(res.result)
                     THEN Bail(w1, res.result.msg)
                     ELSE IF ~IsSome(res.result.v)
                     THEN Write(w1, "()")
                     ELSE IF res.result.v.v.variant # "RequestBody"
                     THEN Bail(w1, <<"resolved to unexpected type ", res.result.v.v.variant,
                                     "(..), expected 'RequestBody'">>)
                     ELSE LET content == res.result.v.v.object.content
                          IN  IF IsSome(ContentGet(content, "application/json"))
                              THEN Write(w1, "    builder = builder.json(&payload);\n")
                              ELSE IF IsSome(ContentGet(content, "multipart/form-data"))
                              THEN Write(w1, "    builder = builder.form(&payload);\n")
                              ELSE IF IsSome(ContentGet(content, "application/octet-stream"))
                              THEN Write(w1, "    builder = builder.body(payload);\n")
                              ELSE Log(w1, "Unsupported type(s): {..}"))

\* routes.rs:495-517: sending the request and decoding the response.
BodyResponse(w) ==
    LET w1 == Write(Write(Write(w, "    let response = builder.send()\n"),
                          "        .await?\n"),
                    "        .error_for_status()?")
        decode(call) == Write(Write(Write(w1, "\n        ." \o call \o "()\n"),
                                    "        .await?;\n\n"),
                              "    Ok(response)")
    IN  IF w.is_json THEN decode("json")
        ELSE IF w.is_text THEN decode("text")
        ELSE IF w.is_none THEN Write(w1, ";\n\n    Ok(())")
        ELSE decode("bytes")

generate_function_body(w, endpoint, method, operation, comps) ==
    Then(Then(BodyParameters(BodyRequest(w, endpoint, method), operation.parameters, comps),
              LAMBDA w2 : BodyRequestBody(w2, operation, comps)),
         LAMBDA w3 : BodyResponse(w3))

-----------------------------------------------------------------------------
(* routes.rs: generate_route *)

\* The writer after generate_route: what it wrote and logged, and its result.
generate_route(endpoint, method, operation, shared_parameters, comps) ==
    Then(Then(Then(Then(Then(
        RouteHead(NewWriter, endpoint, method, operation),
        LAMBDA w1 : SignatureParameters(w1, shared_parameters \o operation.parameters, comps)),
        LAMBDA w2 : SignatureRequestBody(w2, operation, comps)),
        LAMBDA w3 : SignatureReturn(w3, operation, comps)),
        LAMBDA w4 : generate_function_body(Write(w4, "> {\n"), endpoint, method,
                                           operation, comps)),
        LAMBDA w5 : Write(w5, "\n}\n\n"))

-----------------------------------------------------------------------------
(* models.rs: generate_normal_field *)

\* check_keyword is_keyword: the keywords of Rust.
Keywords ==
    {"as", "break", "const", "continue", "crate", "else", "enum", "extern",
     "false", "fn", "for", "if", "impl", "in", "let", "loop", "match", "mod",
     "move", "mut", "pub", "ref", "return", "self", "Self", "static", "struct",
     "super", "trait", "true", "type", "unsafe", "use", "where", "while",
     "async", "await", "dyn", "abstract", "become", "box", "do", "final",
     "macro", "override", "priv", "typeof", "unsized", "virtual", "yield", "try"}

\* FieldName, were a keyword left as it is.
FieldName_Bare(name) ==
    ToSnake(name)

\* models.rs:81-85: the name of the field.
FieldName(name) ==
    IF ToSnake(name) \in Keywords THEN ToSnake(name) \o "_" ELSE ToSnake(name)

\* models.rs:106-117: the match on a single instance type.
FieldInstanceType(t) ==
    CASE t = "Null" -> "()"
      [] t = "Boolean" -> "bool"
      [] t = "Object" -> "std::collections::HashMap<String, String>"
      [] t = "Array" -> "Vec<serde_json::Value>"
      [] t = "Number" -> "i64"
      [] t = "String" -> "String"
      [] t = "Integer" -> "i32"

\* FieldFallthrough, were the reference looked at before the instance type.
FieldFallthrough_ReferenceFirst(w, name, schema) ==
    IF IsSome(schema.reference)
    THEN LET tail == RSplitOnceTail(schema.reference.v)
         IN  IF IsSome(tail)
             THEN Write(w, "models::" \o ToPascal(tail.v))
             ELSE Write(w, "models::" \o ToPascal(Concat(schema.reference.v)))
    ELSE IF IsSome(schema.instance_type) /\ schema.instance_type.v.kind = "Single"
    THEN Write(w, FieldInstanceType(schema.instance_type.v.t))
    ELSE Bail(w, <<"Failed to write field ", name, ". Schema: ", DebugSchema(schema)>>)

\* models.rs:105-127: the arm of the other formats.
FieldFallthrough(w, name, schema) ==
    IF IsSome(schema.instance_type) /\ schema.instance_type.v.kind = "Single"
    THEN Write(w, FieldInstanceType(schema.instance_type.v.t))
    ELSE IF IsSome(schema.reference)
    THEN LET tail == RSplitOnceTail(schema.reference.v)
         IN  IF IsSome(tail)
             THEN Write(w, "models::" \o ToPascal(tail.v))
             ELSE Write(w, "models::" \o ToPascal(Concat(schema.reference.v)))
    ELSE Bail(w, <<"Failed to write field ", name, ". Schema: ", DebugSchema(schema)>>)

\* models.rs:95-128: the type of the field, written.
FieldType(w, name, schema) ==
    CASE schema.format = Some("base64uuid") -> Write(w, "base64uuid::Base64Uuid")
      [] schema.format = Some("int32") -> Write(w, "i32")
      [] schema.format = Some("int64") -> Write(w, "i64")
      [] schema.format = Some("float") -> Write(w, "f32")
      [] schema.format = Some("double") -> Write(w, "f64")
      [] schema.format = Some("byte") -> Write(w, "Vec<u8>")
      [] schema.format = Some("binary") -> Write(w, "Vec<u8>")
      [] schema.format = Some("date") \/ schema.format = Some("date-time") ->
            Write(w, "time::OffsetDateTime")
      [] schema.format = Some("password") -> Write(w, "SecureString")
      [] OTHER -> FieldFallthrough(w, name, schema)

\* models.rs:73-137.
generate_normal_field(w, name, schema, required_list) ==
    LET w1 == Write(w, "    #[serde(rename = \"" \o name \o "\")]\n")
        w2 == Write(w1, "    pub " \o FieldName(name) \o ": ")
        required == name \in required_list
        w3 == IF ~required THEN Write(w2, "Option<") ELSE w2
    IN  Then(FieldType(w3, name, schema),
             LAMBDA w4 : Write(IF ~required THEN Write(w4, ">") ELSE w4, ",\n"))

-----------------------------------------------------------------------------
(* models.rs: generate_model *)

\* schemars ObjectValidation: the properties, in the order of their map, and
\* the required set.
ObjectValidation(properties, required) ==
    [properties |-> properties, required |-> required]

\* An entry of ObjectValidation.properties.
Property(id, schema) == [id |-> id, schema |-> schema]

\* unimplemented!: the thread panics.
Panic(w, msg) == [w EXCEPT !.result = [tag |-> "Panic", msg |-> msg]]

Panicked(w) == w.result.tag = "Panic"

RECURSIVE ModelFields(_, _, _)
\* models.rs:58-65: the loop over the properties of the object.
ModelFields(w, properties, required) ==
    IF properties = <<>>
    THEN w
    ELSE IF Head(properties).schema.kind = "Bool"
    THEN Panic(w, <<"not implemented: bool is not implemented for schema">>)
    ELSE Then(generate_normal_field(w, Head(properties).id,
                                    Head(properties).schema.object, required),
              LAMBDA v : ModelFields(v, Tail(properties), required))

\* models.rs:45-54: the imports, the derive and the opening of the record.
ModelHead(w, name) ==
    Write(Write(Write(Write(Write(w,
        "use serde::{Deserialize, Serialize};\n"),
        "use crate::models;\n"),
        "\n"),
        "#[derive(Clone, Debug, Serialize, Deserialize)]\n"),
        "pub struct " \o ToPascal(name) \o " {\n")

\* generate_model, were a schema without an object a failure.
generate_model_NoObjectFails(w, name, object) ==
    LET w1 == ModelHead(w, name)
        w2 == IF IsSome(object.object)
              THEN ModelFields(w1, object.object.v.properties, object.object.v.required)
              ELSE Bail(w1, <<"warn: ", name, " had no object. probably a enum?">>)
    IN  IF Failed(w2) \/ Panicked(w2) THEN w2 ELSE Write(w2, "}\n\n")

\* models.rs:44-71.
generate_model(w, name, object) ==
    LET w1 == ModelHead(w, name)
        w2 == IF IsSome(object.object)
              THEN ModelFields(w1, object.object.v.properties, object.object.v.required)
              ELSE Log(w1, "warn: " \o name \o " had no object. probably a enum?")
    IN  IF Failed(w2) \/ Panicked(w2) THEN w2 ELSE Write(w2, "}\n\n")

-----------------------------------------------------------------------------
(* routes.rs: generate_routes, step by step *)

\* okapi PathItem: the shared parameters and one optional Operation per method.
PathItem(parameters, get, put, post, delete, patch, head) ==
    [parameters |-> parameters, GET |-> get, PUT |-> put, POST |-> post,
     DELETE |-> delete, PATCH |-> patch, HEAD |-> head]

\* An entry of `paths`: the path template and its PathItem.
Path(endpoint, item) == [endpoint |-> endpoint, item |-> item]

\* MethodOrder, were the POST block placed before the PUT block.
MethodOrder_PostFirst == <<"GET", "POST", "PUT", "DELETE", "PATCH">>

\* routes.rs:81-130: the five blocks of the loop body, in their order.
MethodOrder == <<"GET", "PUT", "POST", "DELETE", "PATCH">>

\* routes.rs:36-77: the fixed head of lib.rs.
Header ==
    <<"#![forbid(unsafe_code)]\n",
      "#![allow(unused_mut)]\n",
      "#![allow(unused_variables)]\n",
      "#![allow(unused_imports)]\n\n",
      "use anyhow::{Context as _, Result};\n",
      "use crate::clients::ApiClient;\n",
      "use reqwest::Method;\n",
      "use time::format_description::well_known::Rfc3339;\n\n",
      "pub mod builder;\n",
      "pub mod clients;\n\n",
      "pub(crate) mod models {\n",
      "    pub use fiberplane_models::notebooks::*;\n",
      "    pub use fiberplane_models::notebooks::operations::*;\n",
      "    pub use fiberplane_models::blobs::*;\n",
      "    pub use fiberplane_models::comments::*;\n",
      "    pub use fiberplane_models::data_sources::*;\n",
      "    pub use fiberplane_models::events::*;\n",
      "    pub use fiberplane_models::files::*;\n",
      "    pub use fiberplane_models::formatting::*;\n",
      "    pub use fiberplane_models::labels::*;\n",
      "    pub use fiberplane_models::names::*;\n",
      "    pub use fiberplane_models::proxies::*;\n",
      "    pub use fiberplane_models::query_data::*;\n",
      "    pub use fiberplane_models::realtime::*;\n",
      "    pub use fiberplane_models::snippets::*;\n",
      "    pub use fiberplane_models::sorting::*;\n",
      "    pub use fiberplane_models::timestamps::*;\n",
      "    pub use fiberplane_models::tokens::*;\n",
      "    pub use fiberplane_models::users::*;\n",
      "    pub use fiberplane_models::workspaces::*;\n",
      "    pub use fiberplane_templates::*;\n",
      "}\n\n">>

Running == [tag |-> "Running"]

\* The position in generate_routes: before the header (path 0), or in the
\* turn of the loop for path i, at block m of MethodOrder or, past the last
\* block, at the write that ends the turn.
At(i, m) == [i |-> i, m |-> m]

\* Propagates, were the result of generate_route dropped.
Propagates_Dropped(w) == FALSE

\* Whether a generate_route call ends the run: the '?' of routes.rs:82-129.
Propagates(w) == Failed(w)

\* routes.rs:24-77: the file is opened and the header written.
WriteHeader ==
    /\ status = Running
    /\ pc = At(0, 1)
    /\ out' = out \o Header
    /\ pc' = At(1, 1)
    /\ UNCHANGED <<fld, mt, components, rr, doc, diag, status, calls, gm>>

\* routes.rs:81-130: one of the five blocks: generate_route for the method's
\* operation when the PathItem has one.
GenerateMethod ==
    /\ status = Running
    /\ pc.i \in 1..Len(doc)
    /\ pc.m \in 1..Len(MethodOrder)
    /\ LET path == doc[pc.i]
           method == MethodOrder[pc.m]
           operation == path.item[method]
       IN  IF IsSome(operation)
           THEN \E w \in {generate_route(path.endpoint, method, operation.v,
                                         path.item.parameters, components)} :
                    /\ out' = out \o w.out
                    /\ diag' = diag \o w.log
                    /\ calls' = Append(calls, [i |-> pc.i, method |-> method,
                                               result |-> w.result])
                    /\ IF Propagates(w)
                       THEN status' = w.result /\ pc' = pc
                       ELSE status' = status /\ pc' = At(pc.i, pc.m + 1)
           ELSE /\ pc' = At(pc.i, pc.m + 1)
                /\ UNCHANGED <<out, diag, calls, status>>
    /\ UNCHANGED <<fld, mt, components, rr, doc, gm>>

\* routes.rs:134: the empty line after a path's functions.
EndPath ==
    /\ status = Running
    /\ pc.i \in 1..Len(doc)
    /\ pc.m = Len(MethodOrder) + 1
    /\ out' = Append(out, "\n")
    /\ pc' = At(pc.i + 1, 1)
    /\ UNCHANGED <<fld, mt, components, rr, doc, diag, status, calls, gm>>

\* routes.rs:137-139: the writer is flushed and the run returns Ok(()).
Finish ==
    /\ status = Running
    /\ pc.i = Len(doc) + 1
    /\ status' = Ok("unit")
    /\ UNCHANGED <<fld, mt, components, rr, doc, pc, out, diag, calls, gm>>

NextRoutes == WriteHeader \/ GenerateMethod \/ EndPath \/ Finish

-----------------------------------------------------------------------------
(* types.rs: resolve_reference, activation by activation *)

\* The activations of resolve_reference nest without bound; the model counts
\* them up to MaxDepth, which stands for MaxDepth or more.  A registry of
\* MaxNames names nests fewer than MaxDepth activations unless it has a cycle.
MaxNames == 3

MaxDepth == MaxNames + 2

Deeper(depth) == IF depth < MaxDepth THEN depth + 1 ELSE MaxDepth

\* An activation that returns: the result goes back through the enclosing
\* activations unchanged (types.rs:186, 193, 200).
ResolveReturn ==
    /\ rr.pc = "call"
    /\ LET body == ResolveReferenceBody(rr.reference, components)
       IN  /\ body.tag = "Return"
           /\ rr' = [rr EXCEPT !.pc = "returned", !.result = body.result,
                               !.log = @ \o body.log]
    /\ UNCHANGED <<fld, mt, components, doc, pc, out, diag, status, calls, gm>>

\* An activation whose entry is a reference: the nested call.
ResolveNested ==
    /\ rr.pc = "call"
    /\ LET body == ResolveReferenceBody(rr.reference, components)
       IN  /\ body.tag = "Recurse"
           /\ rr' = [rr EXCEPT !.reference = body.reference, !.depth = Deeper(@)]
    /\ UNCHANGED <<fld, mt, components, doc, pc, out, diag, status, calls, gm>>

\* Nesting without end exhausts the stack of a build that keeps a frame per
\* activation: the process is aborted, and no Result is returned.  A build
\* that reuses the frame of a call in tail position goes on with ResolveNested.
StackOverflow ==
    /\ rr.pc = "call"
    /\ rr.depth = MaxDepth
    /\ ResolveReferenceBody(rr.reference, components).tag = "Recurse"
    /\ rr' = [rr EXCEPT !.pc = "aborted"]
    /\ UNCHANGED <<fld, mt, components, doc, pc, out, diag, status, calls, gm>>

NextResolve == ResolveReturn \/ ResolveNested \/ StackOverflow

-----------------------------------------------------------------------------
(* types.rs: map_type, applied *)

\* map_type on the drawn inputs.
MapTypeCall ==
    /\ mt.result = None
    /\ mt' = [mt EXCEPT !.result = Some(map_type(mt.format, mt.instance_type, mt.reference))]
    /\ UNCHANGED <<fld, components, rr, doc, pc, out, diag, status, calls, gm>>

\* map_type on the same instance type and reference, the format absent.
MapTypeCallNoFormat ==
    /\ mt.no_format = None
    /\ mt' = [mt EXCEPT !.no_format = Some(map_type(None, mt.instance_type, mt.reference))]
    /\ UNCHANGED <<fld, components, rr, doc, pc, out, diag, status, calls, gm>>

NextMapType == MapTypeCall \/ MapTypeCallNoFormat

-----------------------------------------------------------------------------
(* The inputs of the type mapper *)

FormatKeys ==
    {"base64uuid", "int32", "int64", "float", "double", "byte", "binary",
     "date", "date-time", "password"}

\* Formats the match of types.rs:12-21 does not name.
OtherFormats == {"uuid", "email"}

Formats == {None} \cup {Some(f) : f \in FormatKeys \cup OtherFormats}

InstanceTypes ==
    {None} \cup {Some(Single(t)) : t \in InstanceTypeNames}
           \cup {Some(Vec(<<"String", "Null">>))}

References ==
    {None, Some(Pointer("schemas", "item")), Some(Pointer("schemas", "pet_owner")),
     Some(<<"Item">>)}

Idle == [tag |-> "Idle"]

MtIdle ==
    [format |-> None, instance_type |-> None, reference |-> None,
     result |-> None, no_format |-> None]

FldIdle ==
    [fn |-> "idle", name |-> "", location |-> "", value |-> ContentValue,
     required |-> FALSE, required_list |-> {}, result |-> None, twin |-> None]

GmIdle ==
    [schemas |-> <<>>, i |-> 1, files |-> <<>>, mod_rs_content |-> <<>>,
     log |-> <<>>, status |-> Idle]

RrIdle ==
    [pc |-> "idle", handle |-> <<>>, reference |-> <<>>, depth |-> 0,
     result |-> None, log |-> <<>>]

EmptyComponents ==
    [schemas |-> EmptyMap, parameters |-> EmptyMap, responses |-> EmptyMap,
     request_bodies |-> EmptyMap]

InitMapType ==
    /\ \E f \in Formats, t \in InstanceTypes, r \in References :
           mt = [format |-> f, instance_type |-> t, reference |-> r,
                 result |-> None, no_format |-> None]
    /\ components = EmptyComponents
    /\ fld = FldIdle
    /\ gm = GmIdle
    /\ rr = RrIdle
    /\ doc = <<>>
    /\ pc = At(0, 1)
    /\ out = <<>>
    /\ diag = <<>>
    /\ status = Idle
    /\ calls = <<>>

SpecMapType == InitMapType /\ [][NextMapType]_vars

-----------------------------------------------------------------------------
(* models.rs generate_normal_field and routes.rs:164-196, applied *)

\* generate_normal_field on the drawn field.
FieldCall ==
    /\ fld.fn = "field"
    /\ fld.result = None
    /\ fld' = [fld EXCEPT !.result =
                  Some(generate_normal_field(NewWriter, fld.name, fld.value.schema,
                                             fld.required_list))]
    /\ UNCHANGED <<mt, components, rr, doc, pc, out, diag, status, calls, gm>>

\* generate_normal_field on the same field, its name in the required set.
FieldCallRequired ==
    /\ fld.fn = "field"
    /\ fld.twin = None
    /\ fld' = [fld EXCEPT !.twin =
                  Some(generate_normal_field(NewWriter, fld.name, fld.value.schema,
                                             fld.required_list \cup {fld.name}))]
    /\ UNCHANGED <<mt, components, rr, doc, pc, out, diag, status, calls, gm>>

\* The Parameter arm of routes.rs:164-196 on the drawn parameter.
ParameterCall ==
    /\ fld.fn = "parameter"
    /\ fld.result = None
    /\ fld' = [fld EXCEPT !.result =
                  Some(WriteParameter(NewWriter,
                          Parameter(fld.name, fld.location, fld.required, fld.value)))]
    /\ UNCHANGED <<mt, components, rr, doc, pc, out, diag, status, calls, gm>>

\* The same arm on the same parameter, required.
ParameterCallRequired ==
    /\ fld.fn = "parameter"
    /\ fld.twin = None
    /\ fld' = [fld EXCEPT !.twin =
                  Some(WriteParameter(NewWriter,
                          Parameter(fld.name, fld.location, TRUE, fld.value)))]
    /\ UNCHANGED <<mt, components, rr, doc, pc, out, diag, status, calls, gm>>

NextField == FieldCall \/ FieldCallRequired \/ ParameterCall \/ ParameterCallRequired

\* The schemas of the fields and of the parameters.
FieldSchemas ==
    {SchemaObject(f, t, r, None, "") :
        f \in Formats, t \in InstanceTypes,
        r \in {None, Some(Pointer("schemas", "item")), Some(<<"Item">>)}}

FieldNames == {"id", "type", "createdAt", "Type"}

RequiredLists == {{}, {"id"}, FieldNames}

InitField ==
    /\ \/ \E name \in FieldNames, schema \in FieldSchemas, required_list \in RequiredLists :
             fld = [fn |-> "field", name |-> name, location |-> "",
                    value |-> SchemaValue(schema), required |-> name \in required_list,
                    required_list |-> required_list, result |-> None, twin |-> None]
       \/ \E name \in {"id", "pageSize"}, required \in BOOLEAN,
             value \in {ContentValue} \cup {SchemaValue(schema) : schema \in FieldSchemas} :
             fld = [fn |-> "parameter", name |-> name, location |-> "query",
                    value |-> value, required |-> required,
                    required_list |-> {}, result |-> None, twin |-> None]
    /\ mt = MtIdle
    /\ gm = GmIdle
    /\ components = EmptyComponents
    /\ rr = RrIdle
    /\ doc = <<>>
    /\ pc = At(0, 1)
    /\ out = <<>>
    /\ diag = <<>>
    /\ status = Idle
    /\ calls = <<>>

SpecField == InitField /\ [][NextField]_vars

-----------------------------------------------------------------------------
(* The registries and the handles of the resolver *)

NameSeq == <<"a", "b", "c", "d", "e", "f">>

Names == {NameSeq[i] : i \in 1..MaxNames}

Categories == {"schemas", "parameters", "responses", "request_bodies"}

\* The component token of types.rs:179-197 that selects a category.
CodeToken(category) ==
    CASE category = "schemas" -> "schemas"
      [] category = "parameters" -> "parameters"
      [] category = "responses" -> "responses"
      [] category = "request_bodies" -> "requestBody"

\* The component token of a reference of the document into a category:
\* "#/components/<category>/<name>", the category named as the registry
\* names it.
DocumentToken(category) ==
    CASE category = "schemas" -> "schemas"
      [] category = "parameters" -> "parameters"
      [] category = "responses" -> "responses"
      [] category = "request_bodies" -> "requestBodies"

\* The variant a resolved entry of a category is tagged with.
VariantOf(category) ==
    CASE category = "schemas" -> "Schema"
      [] category = "parameters" -> "Parameter"
      [] category = "responses" -> "Responses"
      [] category = "request_bodies" -> "RequestBody"

\* A second category, holding one object, for references that leave the first.
OtherCategory(category) ==
    CASE category = "schemas" -> "request_bodies"
      [] category = "parameters" -> "responses"
      [] category = "responses" -> "parameters"
      [] category = "request_bodies" -> "schemas"

StringSchema == SchemaObject(None, Some(Single("String")), None, None, "")

\* The concrete entity stored under a name of a category.
Entity(category, name) ==
    CASE category = "schemas" ->
            SchemaObject(None, Some(Single("Object")), None, None, name)
      [] category = "parameters" ->
            Parameter(name, "query", TRUE, SchemaValue(StringSchema))
      [] category = "responses" ->
            Body(name, <<Entry("text/plain", MediaType(None))>>)
      [] category = "request_bodies" ->
            Body(name, <<Entry("application/octet-stream", MediaType(Some(StringSchema)))>>)

\* A schema that is a reference to another schema.
SchemaPointer(reference) == SchemaObject(None, None, Some(reference), None, "")

Absent == [kind |-> "Absent"]

\* What a name of the category may hold: nothing, its object, or a reference
\* into the category or into the other one.
Slots(category, name) ==
    {Absent, Object(Entity(category, name))}
    \cup {Ref(Pointer(t, n)) : t \in {CodeToken(category), DocumentToken(category)},
                               n \in Names}
    \cup {Ref(Pointer(CodeToken(OtherCategory(category)), "a"))}

\* The mapping of a category: RefOr entries, or SchemaObjects for the schemas.
Mapping(category, slots) ==
    [n \in {m \in DOMAIN slots : slots[m] # Absent} |->
        IF category = "schemas"
        THEN IF slots[n].kind = "Ref"
             THEN SchemaPointer(slots[n].reference)
             ELSE slots[n].object
        ELSE slots[n]]

\* The registry whose category holds the slots, the other category one object.
Registry(category, slots) ==
    LET filled(c) ==
            IF c = category THEN Mapping(c, slots)
            ELSE IF c = OtherCategory(category)
            THEN Mapping(c, [n \in {"a"} |-> Object(Entity(c, "a"))])
            ELSE EmptyMap
    IN  [schemas |-> filled("schemas"), parameters |-> filled("parameters"),
         responses |-> filled("responses"), request_bodies |-> filled("request_bodies")]

\* The references resolve_reference is called with.
Handles(category, names) ==
    {Pointer(t, n) : t \in {CodeToken(category), DocumentToken(category),
                            CodeToken(OtherCategory(category)), "headers"},
                     n \in names}
    \cup {<<"#">>, <<"#", "/", "components">>,
          <<"#", "/", "components", "/", CodeToken(category)>>}

\* A registry of one of the categories and a handle of one of the names.
InitResolveOver(categories, names) ==
    /\ \E category \in categories :
          /\ \E slots \in [Names -> UNION {Slots(category, n) : n \in Names}] :
                /\ \A n \in Names : slots[n] \in Slots(category, n)
                /\ components = Registry(category, slots)
          /\ \E handle \in Handles(category, names) :
                rr = [pc |-> "call", handle |-> handle, reference |-> handle,
                      depth |-> 0, result |-> None, log |-> <<>>]
    /\ mt = MtIdle
    /\ fld = FldIdle
    /\ gm = GmIdle
    /\ doc = <<>>
    /\ pc = At(0, 1)
    /\ out = <<>>
    /\ diag = <<>>
    /\ status = Idle
    /\ calls = <<>>

InitResolve == InitResolveOver(Categories, {"a", "zz"})

SpecResolve == InitResolve /\ [][NextResolve]_vars

\* The calls on the parameters of a registry, its first name the handle's.
InitResolveParameters == InitResolveOver({"parameters"}, {"a"})

\* The process keeps running: a step that can be taken is taken.
FairSpecResolve ==
    InitResolveParameters /\ [][NextResolve]_vars /\ WF_vars(NextResolve)

-----------------------------------------------------------------------------
(* The documents of the route synthesizer *)

MaxPaths == 2

MaxParams == 2

ItemReference == Pointer("schemas", "item")

ReferenceSchema(reference) == SchemaObject(None, None, Some(reference), None, "")

TypedSchema(t) == SchemaObject(None, Some(Single(t)), None, None, "")

FormatSchema(format, t) == SchemaObject(Some(format), Some(Single(t)), None, None, "")

\* A schema with no format, no instance type and no reference.
UntypedSchema == SchemaObject(None, None, None, None, "")

ArraySchema(items) ==
    SchemaObject(None, Some(Single("Array")), None, Some(ArrayValidation(items)), "")

JsonContent(schema) == <<Entry("application/json", MediaType(schema))>>

\* The registry of the documents: acyclic, so that every resolution returns.
RouteComponents ==
    [schemas |->
        [n \in {"item"} |-> SchemaObject(None, Some(Single("Object")), None, None, "item")],
     parameters |->
        [n \in {"id", "limit", "alias", "wrong"} |->
            CASE n = "id" -> Object(Parameter("itemId", "path", TRUE, SchemaValue(StringSchema)))
              [] n = "limit" ->
                    Object(Parameter("pageSize", "query", FALSE, SchemaValue(TypedSchema("Integer"))))
              [] n = "alias" -> Ref(Pointer("parameters", "limit"))
              [] n = "wrong" -> Ref(Pointer("responses", "ok"))],
     responses |->
        [n \in {"ok", "alias"} |->
            CASE n = "ok" -> Object(Body("ok", JsonContent(Some(ReferenceSchema(ItemReference)))))
              [] n = "alias" -> Ref(Pointer("responses", "ok"))],
     request_bodies |->
        [n \in {"new_item"} |->
            Object(Body("new item", JsonContent(Some(ReferenceSchema(ItemReference)))))]]

\* The parameter handles of an operation: inline parameters and references.
ParameterHandles ==
    {Object(Parameter("id", "path", TRUE, SchemaValue(StringSchema))),
     Object(Parameter("pageSize", "query", FALSE, SchemaValue(StringSchema))),
     Object(Parameter("since", "query", TRUE, SchemaValue(FormatSchema("date-time", "String")))),
     Object(Parameter("filter", "query", FALSE, SchemaValue(TypedSchema("Object")))),
     Object(Parameter("tags", "query", TRUE,
                      SchemaValue(SchemaObject(None, Some(Single("Array")),
                                               Some(ItemReference), None, "")))),
     Object(Parameter("blob", "query", FALSE, ContentValue)),
     Object(Parameter("x", "query", TRUE, SchemaValue(UntypedSchema))),
     Object(Parameter("Sort-By", "header", TRUE, SchemaValue(StringSchema))),
     Ref(Pointer("parameters", "id")),
     Ref(Pointer("parameters", "alias")),
     Ref(Pointer("parameters", "wrong")),
     Ref(Pointer("parameters", "missing")),
     Ref(Pointer("headers", "x")),
     Ref(<<"#", "/", "components">>)}

RECURSIVE SeqsUpTo(_, _)
\* The sequences over S of length at most n.
SeqsUpTo(S, n) ==
    IF n = 0
    THEN {<<>>}
    ELSE LET shorter == SeqsUpTo(S, n - 1)
         IN  shorter \cup {Append(q, x) : q \in shorter, x \in S}

\* The schemas of a JSON body or response.
BodySchemas ==
    {None,
     Some(ReferenceSchema(ItemReference)),
     Some(ArraySchema(Some(SingleItem(ObjectSchema(ReferenceSchema(ItemReference)))))),
     Some(ArraySchema(Some(SingleItem(BoolSchema(TRUE))))),
     Some(ArraySchema(Some(VecItems(<<ObjectSchema(StringSchema)>>)))),
     Some(ArraySchema(None)),
     Some(TypedSchema("String")),
     Some(TypedSchema("Null")),
     Some(UntypedSchema)}

\* Content maps, their entries in the order of their keys.
Contents ==
    {JsonContent(schema) : schema \in BodySchemas}
    \cup {<<>>,
          <<Entry("application/json", MediaType(Some(TypedSchema("String")))),
            Entry("multipart/form-data", MediaType(Some(ReferenceSchema(ItemReference))))>>,
          <<Entry("application/json", MediaType(Some(ReferenceSchema(ItemReference)))),
            Entry("text/plain", MediaType(None))>>,
          <<Entry("application/octet-stream", MediaType(Some(FormatSchema("binary", "String"))))>>,
          <<Entry("multipart/form-data", MediaType(Some(ReferenceSchema(ItemReference))))>>,
          <<Entry("text/plain", MediaType(Some(TypedSchema("String"))))>>,
          <<Entry("application/xml", MediaType(Some(TypedSchema("String"))))>>,
          <<Entry("application/xml", MediaType(Some(TypedSchema("String")))),
            Entry("multipart/form-data", MediaType(Some(ReferenceSchema(ItemReference))))>>,
          <<Entry("application/octet-stream", MediaType(Some(FormatSchema("binary", "String")))),
            Entry("multipart/form-data", MediaType(Some(ReferenceSchema(ItemReference))))>>}

\* The request body handles of an operation.
RequestBodyHandles ==
    {None} \cup {Some(Object(Body("", content))) : content \in Contents}
    \cup {Some(Ref(Pointer("requestBody", "new_item"))),
          Some(Ref(Pointer("requestBodies", "new_item"))),
          Some(Ref(Pointer("requestBody", "missing"))),
          Some(Ref(Pointer("parameters", "id")))}

\* The handles of the 200 response of an operation.
ResponseHandles ==
    {None} \cup {Some(Object(Body("", content))) : content \in Contents}
    \cup {Some(Ref(Pointer("responses", "ok"))),
          Some(Ref(Pointer("responses", "alias"))),
          Some(Ref(Pointer("responses", "missing"))),
          Some(Ref(Pointer("parameters", "id")))}

\* Operations that differ from the plainest one in their head, in their
\* parameters, or in their request body and response.
Operations ==
    {Operation(d, id, <<>>, None, None) :
        d \in {None, Some("Lists the items")}, id \in {None, Some("list_items")}}
    \cup {Operation(None, Some("list_items"), ps, None, None) :
            ps \in SeqsUpTo(ParameterHandles, MaxParams)}
    \cup {Operation(None, Some("list_items"), <<>>, b, r) :
            b \in RequestBodyHandles, r \in ResponseHandles}

EndpointSeq ==
    <<<<"/items">>, <<"/items/", "{", "id", "}">>, <<"/users">>,
      <<"/users/", "{", "id", "}">>>>

NoOperations == [m \in {"GET", "PUT", "POST", "DELETE", "PATCH", "HEAD"} |-> None]

\* The shared parameters of a PathItem, by the index of its path template.
SharedParameters ==
    <<<<>>, <<Object(Parameter("id", "path", TRUE, SchemaValue(StringSchema)))>>,
      <<Ref(Pointer("parameters", "limit"))>>>>

\* A document of one path with one operation.
SingleOperationDocs ==
    {<<Path(EndpointSeq[e],
            [NoOperations EXCEPT !["GET"] = Some(operation)]
                @@ [parameters |-> SharedParameters[e]])>> :
        e \in 1..3, operation \in Operations}

\* The operations of the documents of several operations: one that is
\* generated, and two that fail (no operation id; a parameter without a type).
PlainOperation(name) == Operation(None, Some(name), <<>>, None, None)

FailingOperation(kind) ==
    IF kind = "no_id"
    THEN Operation(Some("No id"), None, <<>>, None, None)
    ELSE Operation(None, Some("untyped"),
                   <<Object(Parameter("x", "query", TRUE, SchemaValue(UntypedSchema)))>>,
                   None, None)

MethodSets ==
    {{}, {"GET"}, {"HEAD"}, {"PUT", "DELETE"}, {"GET", "POST", "PATCH", "HEAD"},
     {"GET", "PUT", "POST", "DELETE", "PATCH"}}

\* The PathItems of the documents of several operations: the methods present,
\* and at most one of them failing.
PathItems ==
    {[m \in DOMAIN NoOperations |->
         IF m \notin present THEN None
         ELSE IF m = failing.method THEN Some(FailingOperation(failing.kind))
         ELSE Some(PlainOperation(m))] @@ [parameters |-> <<>>] :
       present \in MethodSets,
       failing \in [method : {"GET", "PUT", "POST", "DELETE", "PATCH", "none"},
                    kind : {"no_id", "no_type"}]}

\* The documents of up to MaxPaths paths, their templates distinct.
SeveralOperationDocs ==
    {[i \in 1..Len(items) |-> Path(EndpointSeq[i], items[i])] :
        items \in SeqsUpTo(PathItems, MaxPaths)}

Docs == SingleOperationDocs \cup SeveralOperationDocs

Init ==
    /\ doc \in Docs
    /\ components = RouteComponents
    /\ pc = At(0, 1)
    /\ out = <<>>
    /\ diag = <<>>
    /\ status = Running
    /\ calls = <<>>
    /\ mt = MtIdle
    /\ fld = FldIdle
    /\ gm = GmIdle
    /\ rr = RrIdle

Next == NextRoutes

Spec == Init /\ [][Next]_vars

-----------------------------------------------------------------------------
(* models.rs: generate_models, step by step *)

\* The path of the file of a schema, under the source directory.
ModelPath(name) == "models/" \o ToSnake(name) \o ".rs"

\* A file as it is left on the disk: its path, the fragments written to it.
FileOf(path, content) == [path |-> path, content |-> content]

\* models.rs:18-34: one turn of the loop over components.schemas: the file is
\* created, generate_model writes to it, and its module is added to mod.rs.
GenerateModel ==
    /\ gm.status = Running
    /\ gm.i \in 1..Len(gm.schemas)
    /\ \E w \in {generate_model(NewWriter, gm.schemas[gm.i].name,
                                 gm.schemas[gm.i].object)} :
          gm' = [gm EXCEPT
                   !.files = Append(@, FileOf(ModelPath(gm.schemas[gm.i].name), w.out)),
                   !.log = @ \o w.log,
                   !.status = IF Failed(w) \/ Panicked(w) THEN w.result ELSE @,
                   !.i = IF Failed(w) \/ Panicked(w) THEN @ ELSE @ + 1,
                   !.mod_rs_content =
                       IF Failed(w) \/ Panicked(w)
                       THEN @
                       ELSE @ \o <<"pub mod " \o ToSnake(gm.schemas[gm.i].name) \o ";\n",
                                   "pub use " \o ToSnake(gm.schemas[gm.i].name)
                                       \o "::*;\n\n">>]
    /\ UNCHANGED <<fld, mt, components, rr, doc, pc, out, diag, status, calls>>

\* models.rs:36-41: mod.rs is written and the run returns Ok(()).
WriteModRs ==
    /\ gm.status = Running
    /\ gm.i = Len(gm.schemas) + 1
    /\ gm' = [gm EXCEPT
                 !.files = Append(@, FileOf("models/mod.rs", <<Concat(gm.mod_rs_content)>>)),
                 !.status = Ok("unit")]
    /\ UNCHANGED <<fld, mt, components, rr, doc, pc, out, diag, status, calls>>

NextModels == GenerateModel \/ WriteModRs

MaxSchemas == 3

\* The names of the schemas of a registry.
ModelNames == {"item", "pet_owner", "status", "new-item"}

\* The object validations of the schemas: none for a schema that is no
\* object, and objects without properties, with properties that can be
\* written, with one that has no type, and with a boolean schema.
ModelObjects ==
    {None,
     Some(ObjectValidation(<<>>, {})),
     Some(ObjectValidation(<<Property("id", ObjectSchema(StringSchema))>>, {"id"})),
     Some(ObjectValidation(<<Property("id", ObjectSchema(StringSchema)),
                             Property("type", ObjectSchema(ReferenceSchema(ItemReference)))>>,
                           {"id"})),
     Some(ObjectValidation(<<Property("createdAt", ObjectSchema(UntypedSchema))>>, {})),
     Some(ObjectValidation(<<Property("id", BoolSchema(TRUE))>>, {}))}

\* An entry of components.schemas: the name and the SchemaObject, of which
\* generate_model reads the object validation.
ModelEntry(name, object) == [name |-> name, object |-> [object |-> object]]

\* components.schemas, in the order of the map: the names all differ.
ModelRegistries ==
    {r \in SeqsUpTo({ModelEntry(n, o) : n \in ModelNames, o \in ModelObjects},
                    MaxSchemas) :
        \A j, k \in 1..Len(r) : r[j].name = r[k].name => j = k}

InitModels ==
    /\ \E r \in ModelRegistries :
          gm = [schemas |-> r, i |-> 1, files |-> <<>>, mod_rs_content |-> <<>>,
                log |-> <<>>, status |-> Running]
    /\ mt = MtIdle
    /\ fld = FldIdle
    /\ components = EmptyComponents
    /\ rr = RrIdle
    /\ doc = <<>>
    /\ pc = At(0, 1)
    /\ out = <<>>
    /\ diag = <<>>
    /\ status = Idle
    /\ calls = <<>>

SpecModels == InitModels /\ [][NextModels]_vars

-----------------------------------------------------------------------------
(* The claims about generate_routes and generate_route, under Spec *)

\* The operation a generate_route call was made for.
OperationOf(call) == doc[call.i].item[call.method].v

\* Whether a message names a value: the value is one of its pieces.
NamesValue(msg, value) == \E k \in 1..Len(msg) : msg[k] = value

\* C1: a generate_route call for an operation without operationId returns an
\* error that names the HTTP method and the path template, and that error is
\* the result of the generate_routes run.
C1_MissingOperationIdAborts ==
    \A k \in 1..Len(calls) :
        ~IsSome(OperationOf(calls[k]).operation_id) =>
            /\ IsErr(calls[k].result)
            /\ NamesValue(calls[k].result.msg, calls[k].method)
            /\ NamesValue(calls[k].result.msg, Concat(doc[calls[k].i].endpoint))
            /\ status = calls[k].result

\* A run in which an operation without operationId came after a generated one.
C1_Witness ==
    /\ Len(calls) >= 2
    /\ ~IsSome(OperationOf(calls[Len(calls)]).operation_id)
    /\ IsOk(calls[1].result)

\* C5: once a generate_route call has failed, nothing more is written, no
\* further call is made, and the run's result is that call's error.
C5_FailFast ==
    [][(\E k \in 1..Len(calls) : IsErr(calls[k].result)) =>
          /\ IsErr(calls[Len(calls)].result)
          /\ status = calls[Len(calls)].result
          /\ out' = out /\ calls' = calls /\ status' = status]_vars

\* Whether the document has an operation to generate after position (i, m).
LaterOperation(i, m) ==
    \E j \in 1..Len(doc), n \in 1..Len(MethodOrder) :
        /\ j > i \/ (j = i /\ n > m)
        /\ IsSome(doc[j].item[MethodOrder[n]])

\* A failed call with operations left, both on its path and on a later path.
C5_Witness ==
    /\ IsErr(status)
    /\ Len(calls) >= 1
    /\ LaterOperation(pc.i, pc.m)
    /\ pc.i < Len(doc)

\* The rank of a method in the order GET, PUT, POST, DELETE, PATCH.
DocumentedRank(method) ==
    CASE method = "GET" -> 1
      [] method = "PUT" -> 2
      [] method = "POST" -> 3
      [] method = "DELETE" -> 4
      [] method = "PATCH" -> 5
      [] OTHER -> 0

\* C7: functions are generated in the order of the paths and, within a path,
\* in the order GET, PUT, POST, DELETE, PATCH; no function is generated for
\* another method; a run that succeeds has generated every operation of the
\* five methods.
C7_EmissionOrder ==
    /\ \A k \in 1..Len(calls) : DocumentedRank(calls[k].method) \in 1..5
    /\ \A k, l \in 1..Len(calls) :
          k < l =>
             \/ calls[k].i < calls[l].i
             \/ /\ calls[k].i = calls[l].i
                /\ DocumentedRank(calls[k].method) < DocumentedRank(calls[l].method)
    /\ IsOk(status) =>
          \A i \in 1..Len(doc) :
             \A method \in {"GET", "PUT", "POST", "DELETE", "PATCH"} :
                IsSome(doc[i].item[method]) =>
                   \E k \in 1..Len(calls) : calls[k].i = i /\ calls[k].method = method

\* A finished run over two paths, one with the five methods and one with a
\* HEAD operation beside three others.
C7_Witness ==
    /\ IsOk(status)
    /\ Len(doc) = 2
    /\ Len(calls) = 8
    /\ \E i \in 1..Len(doc) : IsSome(doc[i].item["HEAD"])

\* Whether a handle is a pointer whose name is in no mapping of the registry.
NamesNoEntry(handle) ==
    /\ handle.kind = "Ref"
    /\ Len(handle.reference) = 7
    /\ \A category \in DOMAIN components :
          handle.reference[7] \notin DOMAIN components[category]

\* Whether a parameter, the request body or the 200 response of an operation
\* is such a pointer.
HasDanglingHandle(operation) ==
    \/ \E p \in 1..Len(operation.parameters) : NamesNoEntry(operation.parameters[p])
    \/ IsSome(operation.request_body) /\ NamesNoEntry(operation.request_body.v)
    \/ IsSome(operation.status200) /\ NamesNoEntry(operation.status200.v)

\* C3: the generation of an operation one of whose parameter, request-body or
\* 200-response handles is a pointer that names no entry of the registry
\* fails, and the run ends in that error.
C3_DanglingPointerAborts ==
    \A k \in 1..Len(calls) :
        HasDanglingHandle(OperationOf(calls[k])) =>
            IsErr(calls[k].result) /\ status = calls[k].result

\* Whether a handle is an inline, required parameter whose schema has the
\* instance type string and no format.
RequiredStringParameter(handle) ==
    /\ handle.kind = "Object"
    /\ handle.object.required
    /\ handle.object.value.kind = "Schema"
    /\ handle.object.value.schema.format = None
    /\ handle.object.value.schema.instance_type = Some(Single("String"))

\* C10: in the signature of a generated function, the type written for a
\* parameter whose schema has the instance type string and no format is the
\* borrowed string slice.
C10_BorrowedStringParameter ==
    \A k \in 1..Len(calls) :
        \A p \in 1..Len(OperationOf(calls[k]).parameters) :
            LET handle == OperationOf(calls[k]).parameters[p]
            IN  RequiredStringParameter(handle) =>
                    \A j \in 1..(Len(out) - 1) :
                        out[j] = "    " \o ToSnake(handle.object.name) \o ": "
                            => out[j + 1] = "&str"

-----------------------------------------------------------------------------
(* The claims about resolve_reference, under SpecResolve and FairSpecResolve *)

\* What an entry of a category refers to, None for a concrete entity.
ReferenceOf(category, entry) ==
    IF category = "schemas"
    THEN entry.reference
    ELSE IF entry.kind = "Ref" THEN Some(entry.reference) ELSE None

RECURSIVE ChainEnd(_, _, _, _)
\* The name of the concrete entity that the chain of pointers starting at a
\* name of the category ends at, its pointers written with the given token,
\* within the given number of hops; None when there is no such chain.
ChainEnd(category, token, name, hops) ==
    IF name \notin DOMAIN components[category]
    THEN None
    ELSE LET reference == ReferenceOf(category, components[category][name])
         IN  IF ~IsSome(reference)
             THEN Some(name)
             ELSE IF hops = 0 \/ Len(reference.v) # 7
                     \/ reference.v # Pointer(token, reference.v[7])
             THEN None
             ELSE ChainEnd(category, token, reference.v[7], hops - 1)

\* C2: for each category, resolve_reference on the head of a chain of at most
\* three pointers that ends at a concrete entity returns what
\* resolve_reference returns on a direct pointer to that entity.
C2_ChainResolvesAsDirect ==
    rr.pc = "returned" =>
        \A category \in Categories :
            \A token \in {CodeToken(category), DocumentToken(category)} :
                \A n \in DOMAIN components[category] :
                    (/\ rr.handle = Pointer(token, n)
                     /\ IsSome(ChainEnd(category, token, n, 2)))
                    => rr.result =
                          ResolveReferenceBody(
                              Pointer(token, ChainEnd(category, token, n, 2).v),
                              components).result

\* C4: every call of resolve_reference returns, whatever the registry.
C4_ResolveReferenceReturns == <>(rr.pc = "returned")

-----------------------------------------------------------------------------
(* The claims about map_type, under SpecMapType *)

\* The table of the formats: the type of each of its keys.
DocumentedFormatType(format) ==
    CASE format = "base64uuid" -> "base64uuid::Base64Uuid"
      [] format = "int32" -> "i32"
      [] format = "int64" -> "i64"
      [] format = "float" -> "f32"
      [] format = "double" -> "f64"
      [] format \in {"byte", "binary"} -> "Vec<u8>"
      [] format \in {"date", "date-time"} -> "time::OffsetDateTime"
      [] format = "password" -> "SecureString"

\* The types the table of the instance types gives.
DocumentedInstanceTypes ==
    {"()", "bool", "std::collections::HashMap<String, String>",
     "Vec<serde_json::Value>", "i64", "String", "i32"}

\* Whether the format of the call is a key of the table of the formats.
FormatMatches == IsSome(mt.format) /\ mt.format.v \in FormatKeys

\* Whether the instance type of the call is a single one.
SingleInstanceType == IsSome(mt.instance_type) /\ mt.instance_type.v.kind = "Single"

\* C8: the first matching rule wins, in the order format, instance type,
\* reference.  A format of the table gives the table's type whatever the
\* instance type and the reference are; a single instance type decides
\* before a reference does; a format that is no key of the table gives what
\* an absent format gives.
C8_FirstMatchWins ==
    IsSome(mt.result) =>
        /\ FormatMatches => mt.result.v = Ok(DocumentedFormatType(mt.format.v))
        /\ (~FormatMatches /\ SingleInstanceType) =>
              /\ IsOk(mt.result.v)
              /\ mt.result.v.v \in DocumentedInstanceTypes
        /\ (~FormatMatches /\ IsSome(mt.no_format)) => mt.result = mt.no_format

\* A call with a format of the table beside a single instance type and a
\* reference, and a call with a format that is no key, both with the call
\* without the format made.
C8_Witness ==
    /\ IsSome(mt.result) /\ IsSome(mt.no_format)
    /\ SingleInstanceType /\ IsSome(mt.reference)
    /\ mt.format \in {Some("int64"), Some("uuid")}
    /\ mt.format = Some("int64") => mt.result # mt.no_format

\* C9: the call returns the entry of the table and no error: without a
\* matching format, number gives the 64-bit integer, integer the 32-bit
\* integer, object the map from strings to strings, null the unit, boolean
\* the boolean and string the owned string; the formats byte and binary both
\* give the byte vector.
C9_TableEntries ==
    IsSome(mt.result) =>
        /\ (~FormatMatches /\ SingleInstanceType) =>
              mt.result.v =
                  CASE mt.instance_type.v.t = "Number" -> Ok("i64")
                    [] mt.instance_type.v.t = "Integer" -> Ok("i32")
                    [] mt.instance_type.v.t = "Object" ->
                          Ok("std::collections::HashMap<String, String>")
                    [] mt.instance_type.v.t = "Null" -> Ok("()")
                    [] mt.instance_type.v.t = "Boolean" -> Ok("bool")
                    [] mt.instance_type.v.t = "String" -> Ok("String")
                    [] OTHER -> mt.result.v
        /\ mt.format \in {Some("byte"), Some("binary")} => mt.result.v = Ok("Vec<u8>")
        /\ (FormatMatches \/ SingleInstanceType) => IsOk(mt.result.v)

\* A call on the instance type number, without a format and without a reference.
C9_Witness ==
    /\ IsSome(mt.result)
    /\ mt.format = None
    /\ mt.instance_type = Some(Single("Number"))
    /\ mt.reference = None

\* C11: without a matching format, the instance type array beside a
\* reference gives the list of the record type that the reference names.
C11_ArrayOfReference ==
    (/\ IsSome(mt.result)
     /\ ~FormatMatches
     /\ mt.instance_type = Some(Single("Array"))
     /\ IsSome(mt.reference))
    => mt.result.v =
          Ok("Vec<models::" \o ToPascal(mt.reference.v[Len(mt.reference.v)]) \o ">")

\* C12: the call returns an error exactly when no rule matches: the format
\* is absent or no key of the table, the instance type is absent or a list of
\* types, and the reference is absent.
C12_ErrorExactlyWhenNoRule ==
    IsSome(mt.result) =>
        (IsErr(mt.result.v) <=>
            (~FormatMatches /\ ~SingleInstanceType /\ ~IsSome(mt.reference)))

\* A failed call on a list of instance types, its format no key of the table.
C12_Witness ==
    /\ IsSome(mt.result)
    /\ IsErr(mt.result.v)
    /\ mt.format = Some("uuid")
    /\ IsSome(mt.instance_type) /\ mt.instance_type.v.kind = "Vec"

\* A call on a list of instance types beside a reference, which returns a type.
C12_WitnessReference ==
    /\ IsSome(mt.result)
    /\ IsOk(mt.result.v)
    /\ IsSome(mt.instance_type) /\ mt.instance_type.v.kind = "Vec"
    /\ IsSome(mt.reference)

-----------------------------------------------------------------------------
(* The claims about the fields and the parameters, under SpecField *)

\* The fragments of a required field or parameter, its type wrapped: the
\* opening of the wrapper after the first k fragments, its closing before
\* the last one.
Wrapped(fragments, k) ==
    SubSeq(fragments, 1, k) \o <<"Option<">>
        \o SubSeq(fragments, k + 1, Len(fragments) - 1) \o <<">", ",\n">>

\* C13: the type of a field or of a parameter is written inside the optional
\* wrapper exactly when the field is not in the required set (the parameter
\* is not required), and what the wrapper holds is the type written for the
\* same schema when required.
C13_OptionalityWrapping ==
    (IsSome(fld.result) /\ IsSome(fld.twin)) =>
        LET r == fld.result.v
            t == fld.twin.v
            k == IF fld.fn = "field" THEN 2 ELSE 1
        IN  /\ Failed(r) <=> Failed(t)
            /\ ~Failed(r) =>
                  /\ \A j \in 1..Len(t.out) : t.out[j] \notin {"Option<", ">"}
                  /\ fld.required => r.out = t.out
                  /\ ~fld.required => r.out = Wrapped(t.out, k)

\* An optional parameter with a schema, written, beside its required twin.
C13_Witness ==
    /\ fld.fn = "parameter"
    /\ ~fld.required
    /\ fld.value.kind = "Schema"
    /\ IsSome(fld.result) /\ IsSome(fld.twin)
    /\ ~Failed(fld.result.v)

\* An optional field, written, beside its required twin.
C13_WitnessField ==
    /\ fld.fn = "field"
    /\ ~fld.required
    /\ IsSome(fld.result) /\ IsSome(fld.twin)
    /\ ~Failed(fld.result.v)

-----------------------------------------------------------------------------
(* The claims about the signature and the body of a function, under Spec *)

\* The position of the first fragment equal to a text, 0 without one.
FragmentIndex(fragments, text) ==
    IF \E j \in 1..Len(fragments) : fragments[j] = text
    THEN CHOOSE j \in 1..Len(fragments) :
            fragments[j] = text /\ \A i \in 1..(j - 1) : fragments[i] # text
    ELSE 0

\* The fragments between the opening and the closing of the first return type.
ReturnType(fragments) ==
    SubSeq(fragments, FragmentIndex(fragments, ") -> Result<") + 1,
           FragmentIndex(fragments, "> {\n") - 1)

\* Whether a content map has an entry for a media type.
HasEntry(content, content_type) ==
    \E j \in 1..Len(content) : content[j].content_type = content_type

\* The schema of the application/json entry of a content map.
JsonSchema(content) ==
    content[CHOOSE j \in 1..Len(content) :
                content[j].content_type = "application/json"].media_type.schema

\* Whether a schema is an array that has no single object schema as its item.
UnsupportedArray(schema) ==
    /\ ~IsSome(schema.reference)
    /\ IsSome(schema.array)
    /\ \/ ~IsSome(schema.array.v.items)
       \/ schema.array.v.items.v.kind = "Vec"
       \/ schema.array.v.items.v.schema.kind = "Bool"

\* The type of a JSON schema of the three shapes: a reference, an array of
\* one item schema, an inline type.
TypeOfShape(schema) ==
    IF IsSome(schema.reference)
    THEN "models::" \o ToPascal(schema.reference.v[Len(schema.reference.v)])
    ELSE IF IsSome(schema.array)
    THEN LET item == schema.array.v.items.v.schema.object
         IN  "Vec<" \o map_type(item.format, item.instance_type, item.reference).v \o ">"
    ELSE map_type(schema.format, schema.instance_type, schema.reference).v

\* The line logged when the return type falls back to the byte buffer.
FallbackWarning ==
    "warn: unknown response mime type(s), falling back to 'bytes::Bytes': [..]"

\* C14: the return type of a generated function follows the 200 response:
\* unit without one and for an empty content map; the type of the schema of
\* the application/json entry when there is one, whatever else there is;
\* else the string for a text/plain entry; else the byte buffer, with a
\* warning logged exactly when there is no application/octet-stream entry.
C14_ReturnTypeDecision ==
    (/\ Len(calls) = 1
     /\ IsOk(calls[1].result)
     /\ LET h == OperationOf(calls[1]).status200 IN ~IsSome(h) \/ h.v.kind = "Object")
    => LET h == OperationOf(calls[1]).status200
           content == h.v.object.content
           type_ == ReturnType(out)
           warned == \E j \in 1..Len(diag) : diag[j] = FallbackWarning
       IN  IF ~IsSome(h) \/ content = <<>>
           THEN type_ = <<"()">> /\ ~warned
           ELSE IF HasEntry(content, "application/json")
           THEN /\ ~warned
                /\ ~UnsupportedArray(JsonSchema(content).v) =>
                      type_ = <<TypeOfShape(JsonSchema(content).v)>>
           ELSE IF HasEntry(content, "text/plain")
           THEN type_ = <<"String">> /\ ~warned
           ELSE /\ type_ = <<"bytes::Bytes">>
                /\ warned <=> ~HasEntry(content, "application/octet-stream")

\* A function generated for a response with a JSON entry of a record and a
\* text/plain entry.
C14_Witness ==
    /\ Len(calls) = 1
    /\ IsOk(calls[1].result)
    /\ IsSome(OperationOf(calls[1]).status200)
    /\ OperationOf(calls[1]).status200.v.kind = "Object"
    /\ HasEntry(OperationOf(calls[1]).status200.v.object.content, "application/json")
    /\ HasEntry(OperationOf(calls[1]).status200.v.object.content, "text/plain")
    /\ ReturnType(out) = <<"models::Item">>

\* A function generated for a response of application/xml alone: the byte
\* buffer, and the warning.
C14_WitnessFallback ==
    /\ Len(calls) = 1
    /\ IsOk(calls[1].result)
    /\ IsSome(OperationOf(calls[1]).status200)
    /\ OperationOf(calls[1]).status200.v.kind = "Object"
    /\ HasEntry(OperationOf(calls[1]).status200.v.object.content, "application/xml")
    /\ ReturnType(out) = <<"bytes::Bytes">>
    /\ \E j \in 1..Len(diag) : diag[j] = FallbackWarning

\* Whether a schema is an array whose item is a boolean schema or whose
\* items are a list of schemas.
BoolOrListItems(schema) ==
    /\ ~IsSome(schema.reference)
    /\ IsSome(schema.array)
    /\ IsSome(schema.array.v.items)
    /\ \/ schema.array.v.items.v.kind = "Vec"
       \/ schema.array.v.items.v.schema.kind = "Bool"

\* Whether the first entry of a content map with one of the three media types
\* of a request body has such a schema.
SelectsBoolOrListItems(content) ==
    \E j \in 1..Len(content) :
        /\ content[j].content_type
              \in {"application/json", "multipart/form-data", "application/octet-stream"}
        /\ \A i \in 1..(j - 1) :
              content[i].content_type
                 \notin {"application/json", "multipart/form-data", "application/octet-stream"}
        /\ IsSome(content[j].media_type.schema)
        /\ BoolOrListItems(content[j].media_type.schema.v)

\* C15: a request body whose selected schema is an array of a boolean schema
\* or of a list of schemas makes the generate_route call fail, and nothing is
\* written after the lines of the parameters: no payload, no return type.
C15_UnsupportedPayloadFails ==
    \A k \in 1..Len(calls) :
        LET body == OperationOf(calls[k]).request_body
        IN  (/\ IsSome(body)
             /\ body.v.kind = "Object"
             /\ SelectsBoolOrListItems(body.v.object.content))
            => /\ IsErr(calls[k].result)
               /\ status = calls[k].result
               /\ out[Len(out)] \in {"    client: &ApiClient,\n", ",\n"}

\* A failed call for a request body of an array of a boolean schema, on a
\* path with a shared parameter.
C15_Witness ==
    /\ Len(calls) = 1
    /\ IsErr(calls[1].result)
    /\ IsSome(OperationOf(calls[1]).request_body)
    /\ OperationOf(calls[1]).request_body.v.kind = "Object"
    /\ SelectsBoolOrListItems(OperationOf(calls[1]).request_body.v.object.content)
    /\ out[Len(out)] = ",\n"
    /\ NamesValue(calls[1].result.msg, "simple boolean Vec is unsupported")

\* C16: a 200 response whose JSON schema is an array of a boolean schema or
\* of a list of schemas makes the generate_route call fail, and the run ends
\* in that error.
C16_UnsupportedResponseFails ==
    \A k \in 1..Len(calls) :
        LET response == OperationOf(calls[k]).status200
        IN  (/\ IsSome(response)
             /\ response.v.kind = "Object"
             /\ HasEntry(response.v.object.content, "application/json")
             /\ IsSome(JsonSchema(response.v.object.content))
             /\ BoolOrListItems(JsonSchema(response.v.object.content).v))
            => IsErr(calls[k].result) /\ status = calls[k].result

\* The parameters of the parameter list of a call: what the shared handles
\* of its path and then its own handles resolve to, the handles that resolve
\* to no Parameter left out.
ListedParameters(call) ==
    LET handles == doc[call.i].item.parameters \o OperationOf(call).parameters
        resolved == [j \in 1..Len(handles) |->
                        resolve(ResolveTarget("Parameter", Some(handles[j])),
                                components).result]
        listed == SelectSeq([j \in 1..Len(handles) |-> j],
                            LAMBDA j : /\ IsOk(resolved[j])
                                       /\ IsSome(resolved[j].v)
                                       /\ resolved[j].v.v.variant = "Parameter")
    IN  [j \in 1..Len(listed) |-> resolved[listed[j]].v.v.object]

\* The lines that attach a parameter as a query pair, one per way of
\* writing its value.
QueryLines(parameter) ==
    {"        builder = builder.query(&[(\"" \o parameter.name \o "\", " \o value
        \o ")]);\n" :
        value \in {ToSnake(parameter.name),
                   ToSnake(parameter.name) \o ".format(&Rfc3339)?",
                   "serde_json::to_string(&" \o ToSnake(parameter.name) \o ")?"}}

\* The line that opens the presence check of a parameter.
PresenceCheck(parameter) ==
    "    if let Some(" \o ToSnake(parameter.name) \o ") = "
        \o ToSnake(parameter.name) \o " {\n"

\* C17: in a generated function, every query parameter of the parameter
\* list, shared or not, is attached as a query pair, after a presence check
\* exactly when it is optional; no path parameter is attached.
C17_QueryParametersAttached ==
    (Len(calls) = 1 /\ IsOk(calls[1].result)) =>
        \A p \in 1..Len(ListedParameters(calls[1])) :
            LET parameter == ListedParameters(calls[1])[p]
            IN  /\ parameter.location = "query" =>
                      \E j \in 2..Len(out) :
                          /\ out[j] \in QueryLines(parameter)
                          /\ ~parameter.required <=> out[j - 1] = PresenceCheck(parameter)
                /\ parameter.location = "path" =>
                      \A j \in 1..Len(out) : out[j] \notin QueryLines(parameter)

\* The fragments of the parameter list of the first function: those between
\* the client parameter and the return type.
ParameterList(fragments) ==
    SubSeq(fragments, FragmentIndex(fragments, "    client: &ApiClient,\n") + 1,
           FragmentIndex(fragments, ") -> Result<") - 1)

\* The fragments that open the lines of the parameters in a parameter list:
\* the first fragment and each one after the end of a line, but for a last
\* fragment, which is the payload's.
ParameterNames(list) ==
    LET starts == SelectSeq([j \in 1..Len(list) |-> j],
                            LAMBDA j : /\ j < Len(list)
                                       /\ j = 1 \/ list[j - 1] = ",\n")
    IN  [j \in 1..Len(starts) |-> list[starts[j]]]

\* C18: the parameter list of a generated function holds, once each and in
\* this order, the shared parameters of the path as declared and then the
\* parameters of the operation as declared, for the handles that resolve to
\* a Parameter.
C18_ParameterOrder ==
    (Len(calls) = 1 /\ IsOk(calls[1].result)) =>
        ParameterNames(ParameterList(out)) =
            [j \in 1..Len(ListedParameters(calls[1])) |->
                "    " \o ToSnake(ListedParameters(calls[1])[j].name) \o ": "]

\* A function generated for a path with a shared parameter and an operation
\* with two parameters of its own, of different names.
C18_Witness ==
    /\ Len(calls) = 1
    /\ IsOk(calls[1].result)
    /\ Len(doc[1].item.parameters) = 1
    /\ Len(ListedParameters(calls[1])) = 3
    /\ ListedParameters(calls[1])[2].name # ListedParameters(calls[1])[3].name

\* Whether a handle is a pointer that resolves to an entity of another
\* variant than the one asked for.
Mismatched(handle, variant) ==
    /\ handle.kind = "Ref"
    /\ LET r == resolve_reference(handle.reference, components).result
       IN  IsOk(r) /\ IsSome(r.v) /\ r.v.v.variant # variant

\* Whether an operation has such a handle among its parameters, as its
\* request body or as its 200 response.
HasMismatchedHandle(operation) ==
    \/ \E p \in 1..Len(operation.parameters) :
          Mismatched(operation.parameters[p], "Parameter")
    \/ IsSome(operation.request_body) /\ Mismatched(operation.request_body.v, "RequestBody")
    \/ IsSome(operation.status200) /\ Mismatched(operation.status200.v, "Responses")

\* C19: the generate_route call for an operation with a handle that resolves
\* to an entity of another category fails and ends the run; the function is
\* not completed, and when that handle is the only one of the operation the
\* error is the one of the unexpected type and names the entity's variant.
C19_CategoryMismatchFails ==
    \A k \in 1..Len(calls) :
        LET operation == OperationOf(calls[k])
        IN  HasMismatchedHandle(operation) =>
                /\ IsErr(calls[k].result)
                /\ status = calls[k].result
                /\ out[Len(out)] # "\n}\n\n"
                /\ (Len(operation.parameters) + (IF IsSome(operation.request_body) THEN 1 ELSE 0)
                       + (IF IsSome(operation.status200) THEN 1 ELSE 0) = 1)
                   => /\ NamesValue(calls[k].result.msg, "resolved to unexpected type ")
                      /\ out[Len(out)]
                            \in {"    client: &ApiClient,\n", ",\n", ") -> Result<"}

\* A failed call for an operation whose only handle is a parameter handle
\* that resolves to a response.
C19_Witness ==
    /\ Len(calls) = 1
    /\ Len(OperationOf(calls[1]).parameters) = 1
    /\ Mismatched(OperationOf(calls[1]).parameters[1], "Parameter")
    /\ NamesValue(calls[1].result.msg, "Responses")

\* A failed call for an operation whose request body resolves to a parameter.
C19_WitnessRequestBody ==
    /\ Len(calls) = 1
    /\ IsSome(OperationOf(calls[1]).request_body)
    /\ Mismatched(OperationOf(calls[1]).request_body.v, "RequestBody")
    /\ ~IsSome(OperationOf(calls[1]).status200)
    /\ NamesValue(calls[1].result.msg, "Parameter")

-----------------------------------------------------------------------------
(* A further claim about resolve_reference, under SpecResolve *)

\* The category a component token selects, "none" for any other token.
TokenCategory(token) ==
    CASE token = "schemas" -> "schemas"
      [] token = "parameters" -> "parameters"
      [] token = "responses" -> "responses"
      [] token = "requestBody" -> "request_bodies"
      [] OTHER -> "none"

\* C20: a call on a pointer that matches nothing returns without an error
\* and without an entity: for a token that selects no category, after a line
\* is logged; for a name missing from the category of its token, with
\* nothing logged.
C20_NoMatchIsNotAnError ==
    (rr.pc = "returned" /\ Len(rr.handle) = 7) =>
        LET category == TokenCategory(rr.handle[5])
        IN  /\ category = "none" =>
                  /\ rr.result = Ok(None)
                  /\ rr.log = <<"Unsupported component type " \o rr.handle[5]>>
            /\ (category # "none" /\ rr.handle[7] \notin DOMAIN components[category]) =>
                  rr.result = Ok(None) /\ rr.log = <<>>

\* A returned call on a name missing from the parameters, which hold others.
C20_Witness ==
    /\ rr.pc = "returned"
    /\ rr.handle = Pointer("parameters", "zz")
    /\ DOMAIN components.parameters # {}
    /\ rr.result = Ok(None)

\* A returned call on a token that selects no category.
C20_WitnessToken ==
    /\ rr.pc = "returned"
    /\ rr.handle = Pointer("headers", "a")
    /\ rr.log # <<>>

\* C21: for each of the categories schemas, parameters, responses and
\* requestBodies, a call on the pointer #/components/<category>/<name>, the
\* name a key of the category's mapping and its entry an entity, returns
\* that entity, tagged with the variant of the category.
C21_CategoriesResolve ==
    rr.pc = "returned" =>
        \A category \in Categories :
            \A n \in DOMAIN components[category] :
                (/\ rr.handle = Pointer(DocumentToken(category), n)
                 /\ ~IsSome(ReferenceOf(category, components[category][n])))
                => rr.result =
                      Ok(Some(Resolved(VariantOf(category),
                                       IF category = "schemas"
                                       THEN components[category][n]
                                       ELSE components[category][n].object)))

-----------------------------------------------------------------------------
(* Further claims about the signature and the body of a function, under Spec *)

\* The media types a request body is taken from.
PayloadMediaTypes ==
    {"application/json", "multipart/form-data", "application/octet-stream"}

\* The position in a content map of its first entry of those media types.
FirstPayloadEntry(content) ==
    CHOOSE j \in 1..Len(content) :
        /\ content[j].content_type \in PayloadMediaTypes
        /\ \A i \in 1..(j - 1) : content[i].content_type \notin PayloadMediaTypes

\* The line of the payload parameter for a schema of the three shapes.
PayloadLine(schema) ==
    "    payload: " \o TypeOfShape(schema)
        \o (IF IsSome(schema.reference) \/ IsSome(schema.array) THEN "\n" ELSE ",\n")

\* The request body of the only call of a run, when it is an inline one and
\* the call succeeded.
GeneratedWithBody ==
    /\ Len(calls) = 1
    /\ IsOk(calls[1].result)
    /\ IsSome(OperationOf(calls[1]).request_body)
    /\ OperationOf(calls[1]).request_body.v.kind = "Object"

\* C22: the payload parameter of a generated function is the one of the
\* schema of the first entry, in the order of the content map, whose media
\* type is application/json, multipart/form-data or application/octet-stream;
\* each entry of another media type is logged, and changes nothing else.
C22_FirstSupportedMediaType ==
    GeneratedWithBody =>
        LET content == OperationOf(calls[1]).request_body.v.object.content
            list == ParameterList(out)
        IN  /\ list[Len(list)] =
                  PayloadLine(content[FirstPayloadEntry(content)].media_type.schema.v)
            /\ \A j \in 1..Len(content) :
                  content[j].content_type \notin PayloadMediaTypes <=>
                     \E l \in 1..Len(diag) :
                        diag[l] = "warn: found \"" \o content[j].content_type
                                     \o "\", expected json, form data or octet stream"

\* A function generated for a request body whose entries are application/xml
\* and then multipart/form-data.
C22_Witness ==
    /\ GeneratedWithBody
    /\ Len(OperationOf(calls[1]).request_body.v.object.content) = 2
    /\ FirstPayloadEntry(OperationOf(calls[1]).request_body.v.object.content) = 2
    /\ Len(diag) >= 1

\* A function generated for a request body of two of the three media types,
\* of different schemas.
C22_WitnessTwoSupported ==
    /\ GeneratedWithBody
    /\ LET content == OperationOf(calls[1]).request_body.v.object.content
       IN  /\ Len(content) = 2
           /\ \A j \in 1..2 : content[j].content_type \in PayloadMediaTypes
           /\ content[1].media_type.schema # content[2].media_type.schema


\* The line of the body of a function that attaches the payload, for each of
\* the media types a request body is taken from.
EncodingLine(content_type) ==
    CASE content_type = "application/json" -> "    builder = builder.json(&payload);\n"
      [] content_type = "multipart/form-data" -> "    builder = builder.form(&payload);\n"
      [] content_type = "application/octet-stream" -> "    builder = builder.body(payload);\n"

\* Whether the parameter list of the function ends with a payload parameter.
PayloadDeclared ==
    LET list == ParameterList(out)
    IN  list # <<>> /\ list[Len(list)] # ",\n"

\* Whether the body of the function attaches a payload to the request.
PayloadAttached ==
    \E content_type \in PayloadMediaTypes :
        FragmentIndex(out, EncodingLine(content_type)) # 0

\* C23: the body of a generated function encodes the payload as the media
\* type whose schema gave the payload its type (JSON, form, raw bytes), also
\* when the request body has several of the supported media types; and the
\* body attaches a payload exactly when the signature declares one.
C23_EncodingOfPayloadMediaType ==
    /\ GeneratedWithBody =>
          LET content == OperationOf(calls[1]).request_body.v.object.content
          IN  \A content_type \in PayloadMediaTypes :
                 FragmentIndex(out, EncodingLine(content_type)) # 0
                    <=> content_type = content[FirstPayloadEntry(content)].content_type
    /\ (Len(calls) = 1 /\ IsOk(calls[1].result)) =>
          (PayloadDeclared <=> PayloadAttached)


\* The only call of a run, when it succeeded and the 200 response of its
\* operation is absent or an inline one.
GeneratedWithResponse ==
    /\ Len(calls) = 1
    /\ IsOk(calls[1].result)
    /\ IsSome(OperationOf(calls[1]).status200)
          => OperationOf(calls[1]).status200.v.kind = "Object"

\* Whether the return type of that call is taken from JSON content.
ReturnFromJson ==
    /\ IsSome(OperationOf(calls[1]).status200)
    /\ HasEntry(OperationOf(calls[1]).status200.v.object.content, "application/json")

\* Whether the body of the function decodes the response with a method of
\* the response.
Decodes(method) ==
    FragmentIndex(out, "\n        ." \o method \o "()\n") # 0

\* Whether the body of the function ends without decoding the response.
ReturnsUnitUndecoded ==
    FragmentIndex(out, ";\n\n    Ok(())") # 0

\* C24: the body of a generated function decodes the response by the
\* category of its return type: as JSON exactly when the return type is taken
\* from JSON content and is not unit, as text exactly when it is the string
\* of plain text, as raw bytes exactly when it is the fallback type, and not
\* at all, with a unit result, exactly when the return type is unit, a JSON
\* response whose inline schema maps to unit included.
C24_DecodeMatchesReturnType ==
    GeneratedWithResponse =>
        LET unit == ReturnType(out) = <<"()">>
        IN  /\ Decodes("json") <=> (ReturnFromJson /\ ~unit)
            /\ Decodes("text") <=> (~ReturnFromJson /\ ReturnType(out) = <<"String">>)
            /\ Decodes("bytes") <=> ReturnType(out) = <<"bytes::Bytes">>
            /\ ReturnsUnitUndecoded <=> unit

-----------------------------------------------------------------------------
(* Further claims about the fields of a record, under SpecField *)

\* The identifier of a field for each of the names of the fields: the
\* snake-case name, and an underscore after it when it is a reserved word.
DocumentedIdentifier(name) ==
    CASE name = "id" -> "id"
      [] name = "type" -> "type_"
      [] name = "createdAt" -> "created_at"
      [] name = "Type" -> "type_"

\* C25: the identifier of a field is its snake-case name, with a suffix after
\* it exactly when that name is a reserved word, and the serde rename of the
\* field is the name of the property as it is, whatever the identifier.
C25_FieldIdentifierAndRename ==
    (fld.fn = "field" /\ IsSome(fld.result)) =>
        /\ Len(fld.result.v.out) >= 2
        /\ fld.result.v.out[1] = "    #[serde(rename = \"" \o fld.name \o "\")]\n"
        /\ fld.result.v.out[2] = "    pub " \o DocumentedIdentifier(fld.name) \o ": "

\* A field whose snake-case name is a reserved word while its own name is
\* not, written.
C25_Witness ==
    /\ fld.fn = "field"
    /\ fld.name = "Type"
    /\ IsSome(fld.result)
    /\ ~Failed(fld.result.v)

\* A field whose name is no reserved word, written.
C25_WitnessPlain ==
    /\ fld.fn = "field"
    /\ fld.name = "createdAt"
    /\ IsSome(fld.result)
    /\ ~Failed(fld.result.v)


\* The result of map_type on the triple of the schema of the drawn field.
MappedFieldType ==
    map_type(fld.value.schema.format, fld.value.schema.instance_type,
             fld.value.schema.reference)

\* C27: the type generate_normal_field writes for a property is the result
\* of map_type on the format, the instance type and the reference of its
\* schema, for every such triple, and generate_normal_field fails exactly
\* when map_type does.
C27_FieldTypeIsMapType ==
    (fld.fn = "field" /\ IsSome(fld.result)) =>
        LET r == fld.result.v
        IN  /\ Failed(r) <=> IsErr(MappedFieldType)
            /\ ~Failed(r) =>
                  r.out[IF fld.required THEN 3 ELSE 4] = MappedFieldType.v

\* A field whose schema has a format map_type does not name, a single
\* instance type and a reference, written.
C27_Witness ==
    /\ fld.fn = "field"
    /\ IsSome(fld.result)
    /\ ~Failed(fld.result.v)
    /\ fld.value.schema.format = Some("uuid")
    /\ IsSome(fld.value.schema.instance_type)
    /\ IsSome(fld.value.schema.reference)

\* A field neither map_type nor generate_normal_field has a type for.
C27_WitnessFailure ==
    /\ fld.fn = "field"
    /\ IsSome(fld.result)
    /\ Failed(fld.result.v)
    /\ IsErr(MappedFieldType)

-----------------------------------------------------------------------------
(* A further claim about the parameters of a signature, under Spec *)

\* The fragments of a parameter list that are no type: the wrapper of an
\* optional parameter and the end of a line.
Punctuation == {"Option<", ">", ",\n"}

\* C28: every parameter in the signature of a generated function has a type
\* that is not empty: a parameter whose value is a Content one is not in the
\* signature at all, neither as a name without a type nor as a name with an
\* optional wrapper around nothing.
C28_ParametersCarryTypes ==
    (Len(calls) = 1 /\ IsOk(calls[1].result)) =>
        LET list == ParameterList(out)
        IN  /\ \A j \in 1..(Len(list) - 1) :
                  (j = 1 \/ list[j - 1] = ",\n") =>
                     LET k == IF list[j + 1] = "Option<" THEN j + 2 ELSE j + 1
                     IN  k <= Len(list) /\ list[k] \notin Punctuation
            /\ \A j \in 1..Len(ListedParameters(calls[1])) :
                  ListedParameters(calls[1])[j].value.kind = "Content" =>
                     FragmentIndex(list, "    " \o ToSnake(ListedParameters(calls[1])[j].name)
                                            \o ": ") = 0

-----------------------------------------------------------------------------
(* The claim about generate_models, under SpecModels *)

\* The fragments of a record without fields.
EmptyRecord(name) ==
    <<"use serde::{Deserialize, Serialize};\n",
      "use crate::models;\n",
      "\n",
      "#[derive(Clone, Debug, Serialize, Deserialize)]\n",
      "pub struct " \o ToPascal(name) \o " {\n",
      "}\n\n">>

\* Whether the j-th schema of the registry has no object shape.
NoObjectShape(j) == ~IsSome(gm.schemas[j].object.object)

\* C26: a schema of the registry that has no object shape does not end
\* generate_models: once its file is created a warning is logged, its file
\* holds a record with no fields, and the run goes on to the schemas after
\* it: the files are those of the schemas in the order of the registry, and
\* a run ends early only at a schema that has an object shape.
C26_NoObjectShapeGoesOn ==
    /\ \A j \in 1..Len(gm.schemas) :
          (NoObjectShape(j) /\ Len(gm.files) >= j) =>
             /\ gm.i > j
             /\ gm.files[j] = FileOf(ModelPath(gm.schemas[j].name),
                                     EmptyRecord(gm.schemas[j].name))
             /\ \E l \in 1..Len(gm.log) :
                   gm.log[l] = "warn: " \o gm.schemas[j].name
                                  \o " had no object. probably a enum?"
    /\ \A k \in 1..Len(gm.files) :
          k <= Len(gm.schemas) => gm.files[k].path = ModelPath(gm.schemas[k].name)
    /\ gm.status.tag \in {"Err", "Panic"} =>
          gm.i \in 1..Len(gm.schemas) /\ ~NoObjectShape(gm.i)
    /\ IsOk(gm.status) => Len(gm.files) = Len(gm.schemas) + 1

\* A finished run over a registry whose first schema has no object shape and
\* whose later schemas have fields.
C26_Witness ==
    /\ IsOk(gm.status)
    /\ Len(gm.schemas) = 3
    /\ NoObjectShape(1)
    /\ \A j \in 2..3 :
          /\ ~NoObjectShape(j)
          /\ gm.schemas[j].object.object.v.properties # <<>>
          /\ Len(gm.files[j].content) > 6

=============================================================================
